---------------------------- MODULE Spec2Model ----------------------------
(***************************************************************************)
(* A model of yarer: a Session holds a variable heap; Session::process     *)
(* lexes a line (Parser), rewrites unary +/- (mod_unary_operators), turns  *)
(* the tokens into postfix (reverse_polish_notation) and registers the     *)
(* variables; RpnResolver::resolve evaluates the postfix sequence over the *)
(* Number type (BigInt | BigRational) against the shared heap.             *)
(*                                                                         *)
(* Source text is a sequence of one-character strings.  A panic of the     *)
(* Rust code is the value PANIC (of an operator) or the outcome "panic"    *)
(* (of resolve).                                                           *)
(***************************************************************************)
EXTENDS Integers, Sequences, FiniteSets, TLC

(***************************************************************************)
(* Bounds of the model (not program constants).                            *)
(***************************************************************************)
\* largest integer literal of the generated arithmetic expressions
MaxLit == 2
\* largest length of the generated free-form lines
MaxLineLen == 3
\* operands of an arithmetic step are modelled up to this magnitude
MaxAbs == 1000
\* BigInt::pow is modelled for |base| <= MaxPowBase and exponent <= MaxPowExp
MaxPowBase == 7
MaxPowExp == 9
\* factorial_helper is modelled for operands up to MaxFacArg
MaxFacArg == 7
\* largest value given to Session::set / Session::setf
MaxSetValue == 2
\* the resolve, set and setf calls of one session of the model
MaxCalls == 2
\* RpnResolvers one Session makes
MaxResolvers == 2
\* longest token sequence given to reverse_polish_notation
MaxTokens == 3

(***************************************************************************)
(* token.rs: Number                                                        *)
(***************************************************************************)
abs(a) == IF a < 0 THEN -a ELSE a

RECURSIVE gcd(_, _)
gcd(a, b) == IF b = 0 THEN abs(a) ELSE gcd(b, a % b)

\* num_rational::Ratio::new: reduced, denominator positive; panics on a zero
\* denominator
PANIC == [tag |-> "panic"]

Ratio_new(n, d) ==
    IF d = 0 THEN PANIC
    ELSE LET g == gcd(abs(n), abs(d))
             s == IF d < 0 THEN -1 ELSE 1
         IN  [numer |-> (s * n) \div g, denom |-> (s * d) \div g]

\* BigRational::from(BigInt)
BigRational_from(v) == [numer |-> v, denom |-> 1]

\* BigRational::from_float of a float constant that is not a small dyadic
\* rational (std::f64::consts::PI, ...): kept by name
from_float_const(name) == [float |-> name]

NaturalNumber(v) == [tag |-> "NaturalNumber", v |-> v]
DecimalNumber(r) == [tag |-> "DecimalNumber", r |-> r]

is_natural(n) == n.tag = "NaturalNumber"
is_decimal(n) == n.tag = "DecimalNumber"

\* the numbers whose value the model computes with
is_exact(n) ==
    \/ is_natural(n)
    \/ is_decimal(n) /\ "numer" \in DOMAIN n.r

\* the value of a Number as a reduced fraction
value_of(n) == IF is_natural(n) THEN BigRational_from(n.v) ELSE n.r

in_range(n) ==
    /\ n # PANIC
    /\ is_exact(n)
    /\ abs(value_of(n).numer) <= MaxAbs
    /\ value_of(n).denom <= MaxAbs

\* #[derive(PartialEq)] on Number: same variant and equal payload
number_eq(a, b) == a = b

rat_add(a, b) == Ratio_new(a.numer * b.denom + b.numer * a.denom, a.denom * b.denom)
rat_sub(a, b) == Ratio_new(a.numer * b.denom - b.numer * a.denom, a.denom * b.denom)
rat_mul(a, b) == Ratio_new(a.numer * b.numer, a.denom * b.denom)
\* Ratio / Ratio: panics when the divisor is zero
rat_div(a, b) == Ratio_new(a.numer * b.denom, a.denom * b.numer)

int_add(a, b) == a + b
int_sub(a, b) == a - b
int_mul(a, b) == a * b
\* BigInt / BigInt truncates toward zero (a zero divisor: div_panics)
int_div(a, b) ==
    LET q == abs(a) \div abs(b)
    IN  IF (a < 0) = (b < 0) THEN q ELSE -q

RECURSIVE int_pow(_, _)
int_pow(a, b) == IF b = 0 THEN 1 ELSE a * int_pow(a, b - 1)

\* BigInt::pow(&a, b.try_into().unwrap()) (an exponent try_into() rejects:
\* bitxor_panics)
bigint_pow(a, b) == int_pow(a, b)

\* f64::powf on two rationals, for an integral exponent and a result that a
\* double holds exactly; other arguments are outside the model (see
\* pow_modelled)
rat_powf(a, b) ==
    IF b.numer >= 0
    THEN Ratio_new(int_pow(a.numer, b.numer), int_pow(a.denom, b.numer))
    ELSE Ratio_new(int_pow(a.denom, -b.numer), int_pow(a.numer, -b.numer))

is_pow2(d) == \E k \in 0..30 : int_pow(2, k) = d

\* the closures the operator traits hand to apply_functional_token_operation,
\* by the name of the trait: nf on two BigInts, df on two BigRationals
call_nf(nf, a, b) ==
    CASE nf = "Add" -> int_add(a, b)
      [] nf = "Sub" -> int_sub(a, b)
      [] nf = "Mul" -> int_mul(a, b)
      [] nf = "Div" -> int_div(a, b)
      [] nf = "BitXor" -> bigint_pow(a, b)
call_df(df, a, b) ==
    CASE df = "Add" -> rat_add(a, b)
      [] df = "Sub" -> rat_sub(a, b)
      [] df = "Mul" -> rat_mul(a, b)
      [] df = "Div" -> rat_div(a, b)
      [] df = "BitXor" -> rat_powf(a, b)

apply_functional_token_operation(ln, rn, nf, df) ==
    CASE is_natural(ln) /\ is_natural(rn) -> NaturalNumber(call_nf(nf, ln.v, rn.v))
      [] is_natural(ln) /\ is_decimal(rn) ->
            DecimalNumber(call_df(df, BigRational_from(ln.v), rn.r))
      [] is_decimal(ln) /\ is_natural(rn) ->
            DecimalNumber(call_df(df, ln.r, BigRational_from(rn.v)))
      [] is_decimal(ln) /\ is_decimal(rn) -> DecimalNumber(call_df(df, ln.r, rn.r))

add(self, rhs) == apply_functional_token_operation(self, rhs, "Add", "Add")
sub(self, rhs) == apply_functional_token_operation(self, rhs, "Sub", "Sub")
mul(self, rhs) == apply_functional_token_operation(self, rhs, "Mul", "Mul")
\* a division that gives an Integer when the quotient is integral
div_integral(self, rhs) ==
    LET q == rat_div(value_of(self), value_of(rhs))
    IN  IF q.denom = 1 THEN NaturalNumber(q.numer) ELSE DecimalNumber(q)
div(self, rhs) == apply_functional_token_operation(self, rhs, "Div", "Div")
bitxor(self, rhs) == apply_functional_token_operation(self, rhs, "BitXor", "BitXor")

\* the closures of Div panic on a zero divisor (BigInt and Ratio division)
div_panics(self, rhs) == value_of(rhs).numer = 0
\* the BigInt closure of BitXor panics on an exponent that try_into() rejects
bitxor_panics(self, rhs) == is_natural(self) /\ is_natural(rhs) /\ rhs.v < 0

\* impl PartialOrd for Number: "Less", "Equal" or "Greater", by value
partial_cmp(a, b) ==
    LET x == value_of(a)
        y == value_of(b)
        l == x.numer * y.denom
        r == y.numer * x.denom
    IN  IF l < r THEN "Less" ELSE IF l = r THEN "Equal" ELSE "Greater"

number_lt(a, b) == partial_cmp(a, b) = "Less"

\* Number::DecimalNumber(n.into()): the same value as a Decimal
to_decimal(n) == DecimalNumber(value_of(n))

(***************************************************************************)
(* token.rs: Token                                                         *)
(***************************************************************************)
Operand(n)     == [k |-> "Operand", n |-> n]
Operator(op)   == [k |-> "Operator", op |-> op]
Bracket(b)     == [k |-> "Bracket", b |-> b]
Function(f)    == [k |-> "Function", f |-> f]
Variable(s)    == [k |-> "Variable", s |-> s]
Comma          == [k |-> "Comma"]
SemiColon      == [k |-> "SemiColon"]
\* Option::None of tokenize
None           == [k |-> "None"]

is_operand(t)  == t.k = "Operand"
is_operator(t) == t.k = "Operator"
is_function(t) == t.k = "Function"
is_variable(t) == t.k = "Variable"
is_open(t)     == t = Bracket("Open")
is_close(t)    == t = Bracket("Close")

LowerCase == << "a", "b", "c", "d", "e", "f", "g", "h", "i", "j", "k", "l", "m",
                "n", "o", "p", "q", "r", "s", "t", "u", "v", "w", "x", "y", "z" >>
UpperCase == << "A", "B", "C", "D", "E", "F", "G", "H", "I", "J", "K", "L", "M",
                "N", "O", "P", "Q", "R", "S", "T", "U", "V", "W", "X", "Y", "Z" >>
Digits    == << "0", "1", "2", "3", "4", "5", "6", "7", "8", "9" >>

Range(f) == { f[i] : i \in DOMAIN f }

is_digit(c) == c \in Range(Digits)
digit_value(c) == (CHOOSE i \in DOMAIN Digits : Digits[i] = c) - 1

\* a conversion that keeps the case of a character
char_verbatim(c) == c
\* char::to_lowercase and str::to_lowercase
char_to_lowercase(c) ==
    IF c \in Range(UpperCase)
    THEN LowerCase[CHOOSE i \in DOMAIN UpperCase : UpperCase[i] = c]
    ELSE c
to_lowercase(str) == [i \in DOMAIN str |-> char_to_lowercase(str[i])]

from_operator(c) ==
    CASE c = "+" -> Operator("Add")
      [] c = "-" -> Operator("Sub")
      [] c = "*" -> Operator("Mul")
      [] c = "/" -> Operator("Div")
      [] c = "^" -> Operator("Pow")
      [] c = "#" -> Operator("Une")
      [] c = "!" -> Operator("Fac")
      [] c = "=" -> Operator("Eql")
      [] OTHER   -> None

from_bracket(c) ==
    CASE c \in {"(", "["} -> Bracket("Open")
      [] c \in {")", "]"} -> Bracket("Close")
      [] OTHER -> None

get_some(fun) ==
    LET name == to_lowercase(fun)
    IN  CASE name = << "s", "i", "n" >> -> Function("Sin")
          [] name = << "c", "o", "s" >> -> Function("Cos")
          [] name = << "t", "a", "n" >> -> Function("Tan")
          [] name = << "a", "s", "i", "n" >> -> Function("ASin")
          [] name = << "a", "c", "o", "s" >> -> Function("ACos")
          [] name = << "a", "t", "a", "n" >> -> Function("ATan")
          [] name = << "l", "n" >> -> Function("Ln")
          [] name = << "l", "o", "g" >> -> Function("Log")
          [] name = << "a", "b", "s" >> -> Function("Abs")
          [] name = << "s", "q", "r", "t" >> -> Function("Sqrt")
          [] name = << "m", "a", "x" >> -> Function("Max")
          [] name = << "m", "i", "n" >> -> Function("Min")
          [] name = << "f", "l", "o", "o", "r" >> -> Function("Floor")
          [] name = << "c", "e", "i", "l" >> -> Function("Ceil")
          [] name = << "r", "o", "u", "n", "d" >> -> Function("Round")
          [] name = << "e", "x", "p" >> -> Function("Exp")
          [] name = << "p", "d", "f" >> -> Function("Pdf")
          [] name = << "c", "d", "f" >> -> Function("Cdf")
          [] OTHER -> None

\* the decimal value of a string of digits (0 for the empty string)
RECURSIVE digits_value(_)
digits_value(str) ==
    IF str = << >> THEN 0
    ELSE 10 * digits_value(SubSeq(str, 1, Len(str) - 1)) + digit_value(str[Len(str)])

all_digits(str) == \A i \in DOMAIN str : is_digit(str[i])

\* t.parse::<BigInt>() succeeds (the first character of t is no sign here)
parses_bigint(t) == t # << >> /\ all_digits(t)

\* t.parse::<f64>() of digits with one '.', with a digit on one side at least
parses_f64(t) ==
    \E p \in DOMAIN t :
        /\ t[p] = "."
        /\ all_digits(SubSeq(t, 1, p - 1))
        /\ all_digits(SubSeq(t, p + 1, Len(t)))
        /\ Len(t) > 1

\* BigRational::from_float(v) of a literal "i.f": its value when a double holds
\* it exactly, and else the double nearest to it, kept by name
f64_literal(t) ==
    LET p    == CHOOSE p \in DOMAIN t : t[p] = "."
        frac == SubSeq(t, p + 1, Len(t))
        r    == Ratio_new(digits_value(SubSeq(t, 1, p - 1)) * int_pow(10, Len(frac))
                            + digits_value(frac),
                          int_pow(10, Len(frac)))
    IN  IF is_pow2(r.denom) THEN r ELSE from_float_const(t)

tokenize(t) ==
    IF t = << >> THEN None
    ELSE IF t[1] \in {"+", "-", "*", "/", "^", "!", "="} THEN from_operator(t[1])
    ELSE IF t[1] \in {"(", ")", "[", "]"} THEN from_bracket(t[1])
    ELSE IF t[1] = "," THEN Comma
    ELSE IF t[1] = ";" THEN SemiColon
    ELSE IF parses_bigint(t) THEN Operand(NaturalNumber(digits_value(t)))
    ELSE IF parses_f64(t) THEN Operand(DecimalNumber(f64_literal(t)))
    ELSE IF get_some(t) # None THEN get_some(t)
    ELSE Variable(t)

\* a priority table in which Pow groups to the left
operator_priority_pow_left(o) ==
    IF ~is_operator(o) THEN PANIC
    ELSE CASE o.op \in {"Add", "Sub"} -> << 1, "LeftAssociative" >>
           [] o.op \in {"Mul", "Div"} -> << 2, "LeftAssociative" >>
           [] o.op = "Pow" -> << 3, "LeftAssociative" >>
           [] o.op = "Une" -> << 4, "RightAssociative" >>
           [] o.op = "Fac" -> << 5, "LeftAssociative" >>
           [] o.op = "Eql" -> << 0, "RightAssociative" >>

\* a priority table that puts unary minus below power
operator_priority_une_low(o) ==
    IF ~is_operator(o) THEN PANIC
    ELSE CASE o.op \in {"Add", "Sub"} -> << 1, "LeftAssociative" >>
           [] o.op \in {"Mul", "Div"} -> << 2, "LeftAssociative" >>
           [] o.op = "Pow" -> << 3, "RightAssociative" >>
           [] o.op = "Une" -> << 2, "RightAssociative" >>
           [] o.op = "Fac" -> << 5, "LeftAssociative" >>
           [] o.op = "Eql" -> << 0, "RightAssociative" >>
\* operator_priority: <<priority, associativity>>; panics on a non-operator
operator_priority(o) ==
    IF ~is_operator(o) THEN PANIC
    ELSE CASE o.op \in {"Add", "Sub"} -> << 1, "LeftAssociative" >>
           [] o.op \in {"Mul", "Div"} -> << 2, "LeftAssociative" >>
           [] o.op = "Pow" -> << 3, "RightAssociative" >>
           [] o.op = "Une" -> << 4, "RightAssociative" >>
           [] o.op = "Fac" -> << 5, "LeftAssociative" >>
           [] o.op = "Eql" -> << 0, "RightAssociative" >>

\* a comparison that lets no operator pop one of its own priority
compare_operator_priority_strict(op1, op2) ==
    operator_priority(op1)[1] < operator_priority(op2)[1]

\* compare_operator_priority: op2, on the stack, is popped before op1 is pushed
compare_operator_priority(op1, op2) ==
    LET v_op1 == operator_priority(op1)
        v_op2 == operator_priority(op2)
    IN  \/ v_op1[2] = "LeftAssociative" /\ v_op1[1] <= v_op2[1]
        \/ v_op1[2] = "RightAssociative" /\ v_op1[1] < v_op2[1]

(***************************************************************************)
(* parser.rs: Parser                                                       *)
(***************************************************************************)
\* the characters of [-+*/^()=×÷!] and of [a-zA-Z_]
RegexOperatorChars == {"-", "+", "*", "/", "^", "(", ")", "=", "×", "÷", "!"}
is_ident_start(c) == c \in Range(LowerCase) \cup Range(UpperCase) \cup {"_"}
is_ident_char(c) == is_ident_start(c) \/ is_digit(c)

\* the end (exclusive) of the longest run of digits, \d*, from i
digits_end(str, i) ==
    CHOOSE j \in i..(Len(str) + 1) :
        /\ \A q \in i..(j - 1) : is_digit(str[q])
        /\ j = Len(str) + 1 \/ ~is_digit(str[j])

\* the end (exclusive) of the longest run of [a-zA-Z0-9_]* from i
ident_end(str, i) ==
    CHOOSE j \in i..(Len(str) + 1) :
        /\ \A q \in i..(j - 1) : is_ident_char(str[q])
        /\ j = Len(str) + 1 \/ ~is_ident_char(str[j])

\* EXPRESSION_REGEX at position i: the end (exclusive) of the match of the first
\* alternative that matches there; the last alternative is empty
regex_match_end(str, i) ==
    IF is_digit(str[i]) THEN
        LET a == digits_end(str, i)
            b == IF a <= Len(str) /\ str[a] = "." THEN a + 1 ELSE a
        IN  digits_end(str, b)
    ELSE IF str[i] = "." /\ i + 1 <= Len(str) /\ is_digit(str[i + 1]) THEN
        digits_end(str, i + 1)
    ELSE IF str[i] \in RegexOperatorChars THEN i + 1
    ELSE IF is_ident_start(str[i]) THEN ident_end(str, i + 1)
    ELSE i

\* one match of Regex::find_iter.  st.i is the position of the search,
\* st.last_end the end of the previous match (0: none), st.chunks the matches
\* so far.  An empty match that touches the previous match is skipped.
find_iter_next(str, st) ==
    LET state(i, last_end, chunks) == [i |-> i, last_end |-> last_end, chunks |-> chunks]
    IN  IF st.i > Len(str) + 1 THEN st
        ELSE LET e == IF st.i = Len(str) + 1 THEN st.i ELSE regex_match_end(str, st.i)
             IN  IF e = st.i
                 THEN IF st.last_end = st.i
                      THEN state(st.i + 1, st.last_end, st.chunks)
                      ELSE state(st.i + 1, st.i, Append(st.chunks, << >>))
                 ELSE state(e, e, Append(st.chunks, SubSeq(str, st.i, e - 1)))

\* n matches from st (the first half, then the second unless the input ended)
RECURSIVE find_iter_loop(_, _, _)
find_iter_loop(str, st, n) ==
    IF n = 0 THEN st
    ELSE IF n = 1 THEN find_iter_next(str, st)
    ELSE LET first == find_iter_loop(str, st, n \div 2)
         IN  IF first.i > Len(str) + 1 THEN first
             ELSE find_iter_loop(str, first, n - (n \div 2))

\* Regex::find_iter(str): every match advances by a character at least
find_iter(str) ==
    find_iter_loop(str, [i |-> 1, last_end |-> 0, chunks |-> << >>], Len(str) + 1).chunks

\* Parser::process
Parser_process(exp) == find_iter(exp)

\* Token::tokenize_vec: the tokens of the chunks that tokenize accepts
is_some(t) == t # None
tokenize_vec(v) == SelectSeq([i \in 1..Len(v) |-> tokenize(v[i])], is_some)

\* an iteration that leaves every Sub as it is
mod_unary_step_keep_sub(v, st) ==
    IF st.i > Len(v) THEN st
    ELSE LET token  == v[st.i]
             expect == st.expect_operand_next
             state(mod_vec, flag) ==
                 [i |-> st.i + 1, mod_vec |-> mod_vec, expect_operand_next |-> flag]
             keep(flag) == state(Append(st.mod_vec, token), flag)
         IN  IF is_operand(token) \/ is_variable(token) THEN keep(FALSE)
             ELSE IF is_operator(token) THEN
                 IF expect /\ token.op = "Add" THEN state(st.mod_vec, expect)
                 ELSE keep(TRUE)
             ELSE keep(expect)

\* one iteration of `for token in v` in Parser::mod_unary_operators; st.i is
\* the index of the token
mod_unary_step(v, st) ==
    IF st.i > Len(v) THEN st
    ELSE LET token  == v[st.i]
             expect == st.expect_operand_next
             state(mod_vec, flag) ==
                 [i |-> st.i + 1, mod_vec |-> mod_vec, expect_operand_next |-> flag]
             keep(flag) == state(Append(st.mod_vec, token), flag)
         IN  IF is_operand(token) \/ is_variable(token) THEN keep(FALSE)
             ELSE IF is_operator(token) THEN
                 IF expect /\ token.op = "Add" THEN state(st.mod_vec, expect)
                 ELSE IF expect /\ token.op = "Sub" THEN
                     state(Append(st.mod_vec, Operator("Une")), expect)
                 ELSE keep(TRUE)
             ELSE keep(expect)

\* n iterations from st (the first half, then the second unless v ended)
RECURSIVE mod_unary_steps(_, _, _)
mod_unary_steps(v, st, n) ==
    IF n = 0 THEN st
    ELSE IF n = 1 THEN mod_unary_step(v, st)
    ELSE LET first == mod_unary_steps(v, st, n \div 2)
         IN  IF first.i > Len(v) THEN first
             ELSE mod_unary_steps(v, first, n - (n \div 2))

\* Parser::mod_unary_operators: mod_vec and expect_operand_next after the first
\* i tokens of v
mod_unary_loop(v, i) ==
    mod_unary_steps(v, [i |-> 1, mod_vec |-> << >>, expect_operand_next |-> TRUE], i)

mod_unary_operators(v) == mod_unary_loop(v, Len(v)).mod_vec

\* Parser::parse
Parser_parse(expr) == mod_unary_operators(tokenize_vec(Parser_process(expr)))

(***************************************************************************)
(* rpn_resolver.rs: RpnResolver::reverse_polish_notation                   *)
(***************************************************************************)
Last(q)  == q[Len(q)]
Front(q) == SubSeq(q, 1, Len(q) - 1)
\* a pop_back that leaves the queue as it is
pop_back_keep(q) == q
\* VecDeque::pop_back / Vec::pop on a possibly empty stack
pop_back(q) == IF q = << >> THEN q ELSE Front(q)

reverse(q) == [i \in 1..Len(q) |-> q[Len(q) + 1 - i]]

\* an insert that replaces the value of a key that is there
heap_or_insert_overwrite(heap, key, v) ==
    [k \in DOMAIN heap \cup {key} |-> IF k = key THEN v ELSE heap[k]]

\* an insert into a map made anew
heap_insert_fresh(heap, key, v) == [x \in {key} |-> v]

\* HashMap::insert and HashMap::entry(k).or_insert(v)
heap_insert(heap, key, v) ==
    [x \in DOMAIN heap \cup {key} |-> IF x = key THEN v ELSE heap[x]]
\* an or_insert that registers nothing
heap_or_insert_skip(heap, key, v) == heap
heap_or_insert(heap, key, v) ==
    IF key \in DOMAIN heap THEN heap ELSE heap_insert(heap, key, v)

\* the state of the loop: operators_stack (top last), postfix_stack, local_heap,
\* and whether an expect or operator_priority has aborted the function
rpn_state(ops, out, heap) ==
    [operators_stack |-> ops, postfix_stack |-> out, local_heap |-> heap, aborted |-> FALSE]

\* operators_stack.pop().expect("It should not happen."): aborts on an empty stack
pop_expect(ops) ==
    IF ops = << >> THEN [aborted |-> TRUE, rest |-> ops, token |-> PANIC]
    ELSE [aborted |-> FALSE, rest |-> Front(ops), token |-> Last(ops)]

\* compare_operator_priority aborts when operator_priority gets a non-operator
compare_operator_priority_panics(op1, op2) == ~is_operator(op1) \/ ~is_operator(op2)

\* Token::Bracket(Close): pop to the output until a left parenthesis is popped,
\* then pop a Function under it to the output; <<operators, output, aborted>>
RECURSIVE rpn_close(_, _)
rpn_close(ops, out) ==
    IF ops = << >> THEN << ops, out, FALSE >>
    ELSE LET token == Last(ops)
             rest  == Front(ops)
         IN  IF is_open(token)
             THEN IF rest # << >> /\ is_function(Last(rest))
                  THEN LET p == pop_expect(rest)
                       IN  << p.rest, Append(out, p.token), p.aborted >>
                  ELSE << rest, out, FALSE >>
             ELSE rpn_close(rest, Append(out, token))

\* a Comma loop that pops without looking whether the stack is empty
RECURSIVE rpn_comma_unguarded(_, _)
rpn_comma_unguarded(ops, out) ==
    IF ops # << >> /\ is_open(Last(ops)) THEN << ops, out, FALSE >>
    ELSE LET p == pop_expect(ops)
         IN  IF p.aborted THEN << ops, out, TRUE >>
             ELSE rpn_comma_unguarded(p.rest, Append(out, p.token))

\* Token::Comma: pop to the output while the top is not a left parenthesis
RECURSIVE rpn_comma(_, _)
rpn_comma(ops, out) ==
    IF ops = << >> \/ is_open(Last(ops)) THEN << ops, out, FALSE >>
    ELSE LET p == pop_expect(ops)
         IN  IF p.aborted THEN << ops, out, TRUE >>
             ELSE rpn_comma(p.rest, Append(out, p.token))

\* Token::Operator: pop operators that have priority, and functions
RECURSIVE rpn_operator(_, _, _)
rpn_operator(op1, ops, out) ==
    IF ops = << >> THEN << ops, out, FALSE >>
    ELSE LET op2 == Last(ops)
             p == pop_expect(ops)
         IN  IF is_operator(op2)
             THEN IF compare_operator_priority_panics(op1, op2) THEN << ops, out, TRUE >>
                  ELSE IF compare_operator_priority(op1, op2)
                  THEN IF p.aborted THEN << ops, out, TRUE >>
                       ELSE rpn_operator(op1, p.rest, Append(out, p.token))
                  ELSE << ops, out, FALSE >>
             ELSE IF is_function(op2)
             THEN IF p.aborted THEN << ops, out, TRUE >>
                  ELSE rpn_operator(op1, p.rest, Append(out, p.token))
             ELSE << ops, out, FALSE >>

\* the state after an arm that may have aborted
rpn_arm(r, heap) == [rpn_state(r[1], r[2], heap) EXCEPT !.aborted = r[3]]

\* one iteration of `for t in infix_stack`
rpn_token(st, t) ==
    LET ops  == st.operators_stack
        out  == st.postfix_stack
        heap == st.local_heap
    IN  IF st.aborted THEN st
        ELSE
        CASE is_operand(t) -> rpn_state(ops, Append(out, t), heap)
          [] is_open(t) -> rpn_state(Append(ops, t), out, heap)
          [] is_close(t) -> rpn_arm(rpn_close(ops, out), heap)
          [] t = Comma -> rpn_arm(rpn_comma(ops, out), heap)
          [] t = SemiColon ->
                rpn_state(<< >>, Append(out \o reverse(ops), SemiColon), heap)
          [] is_operator(t) ->
                LET r == rpn_operator(t, ops, out)
                IN  rpn_arm(<< Append(r[1], t), r[2], r[3] >>, heap)
          [] is_function(t) -> rpn_state(Append(ops, t), out, heap)
          [] is_variable(t) ->
                rpn_state(ops, Append(out, t),
                          heap_or_insert(heap, to_lowercase(t.s), NaturalNumber(0)))

\* n iterations of `for t in infix_stack` from the state lp.st at the token
\* of index lp.i (the first half, then the second unless infix_stack ended)
RECURSIVE rpn_loop(_, _, _)
rpn_loop(infix_stack, lp, n) ==
    IF n = 0 \/ lp.i > Len(infix_stack) THEN lp
    ELSE IF n = 1 THEN [i |-> lp.i + 1, st |-> rpn_token(lp.st, infix_stack[lp.i])]
    ELSE LET first == rpn_loop(infix_stack, lp, n \div 2)
         IN  IF first.i > Len(infix_stack) THEN first
             ELSE rpn_loop(infix_stack, first, n - (n \div 2))

\* reverse_polish_notation: <<postfix_stack, local_heap, aborted>>
reverse_polish_notation(infix_stack, local_heap) ==
    LET begin == [i |-> 1, st |-> rpn_state(<< >>, << >>, local_heap)]
        st == rpn_loop(infix_stack, begin, Len(infix_stack)).st
    IN  << st.postfix_stack \o reverse(st.operators_stack), st.local_heap, st.aborted >>

\* RpnResolver::parse_with_borrowed_heap: <<rpn_expr, local_heap>>
parse_with_borrowed_heap(exp, borrowed_heap) ==
    reverse_polish_notation(Parser_parse(exp), borrowed_heap)

(***************************************************************************)
(* rpn_resolver.rs: RpnResolver::resolve                                   *)
(***************************************************************************)
MALFORMED_ERR         == "Runtime Error: The mathematical expression is malformed."
DIVISION_ZERO_ERR     == "Runtime error: Divide by zero."
NO_VARIABLE_ERR       == "Runtime error: No variable has been defined for assignment."
FACTORIAL_NATURAL_ERR == "Runtime error: Factorial is only defined for non-negative integers."

\* anyhow::Result<Number>, a panic, and "resolve has not returned"
Ok(n)      == [kind |-> "Ok", value |-> n]
Err(e)     == [kind |-> "Err", err |-> e]
Panicked   == [kind |-> "Panic"]
Running    == [kind |-> "Running"]
\* a step whose arithmetic lies outside the bounds of the model
Unmodelled == [kind |-> "Unmodelled"]

\* Option<String>
Some(name) == << name >>
NoneVar    == << >>

zero      == NaturalNumber(0)
minus_one == NaturalNumber(-1)

\* a factorial whose recursion ends in 0
RECURSIVE factorial_helper_zero(_)
factorial_helper_zero(n) == IF n = 0 THEN 0 ELSE n * factorial_helper_zero(n - 1)

RECURSIVE factorial_helper(_)
factorial_helper(n) == IF n = 0 THEN 1 ELSE n * factorial_helper(n - 1)

\* the locals of resolve after a token, and what resolve returned there, if it did
eval_state(rs, vs, heap, ret) ==
    [result_stack |-> rs, var_stack |-> vs, local_heap |-> heap, ret |-> ret]

\* the Decimal closure of BitXor: powf, then from_float(..).expect(..), which
\* panics on a result that is not finite
powf_panics(left, right) == value_of(left).numer = 0 /\ value_of(right).numer < 0

\* the powers the model computes: BigInt::pow within MaxPowBase and MaxPowExp,
\* powf for an integral exponent and a result a double holds exactly
pow_modelled(left, right) ==
    LET l == value_of(left)
        r == value_of(right)
    IN  /\ r.denom = 1
        /\ abs(r.numer) <= MaxPowExp
        /\ abs(l.numer) <= MaxPowBase
        /\ l.denom <= MaxPowBase
        /\ \/ is_natural(left) /\ is_natural(right) /\ right.v >= 0
           \/ powf_panics(left, right)
           \/ is_pow2(rat_powf(l, r).denom)

\* f64::from(Number) and Number::DecimalNumber(f64) are exact for these
f64_exact(n) == in_range(n) /\ is_pow2(value_of(n).denom)

rat_floor(r) == r.numer \div r.denom

\* the math routine of a Function token on f64 arguments, as a BigRational;
\* the routines that do not keep a small fraction exact are kept by name
math_function(fun, value, value2) ==
    LET v == value_of(value)
    IN  CASE fun = "Abs"   -> Ratio_new(abs(v.numer), v.denom)
          [] fun = "Floor" -> BigRational_from(rat_floor(v))
          [] fun = "Ceil"  -> BigRational_from(-rat_floor(Ratio_new(-v.numer, v.denom)))
          [] fun = "Max"   ->
                IF number_lt(value, value2) THEN value_of(value2) ELSE v
          [] fun = "Min"   ->
                IF number_lt(value2, value) THEN value_of(value2) ELSE v
          [] OTHER -> from_float_const(<< fun, value >>)

ExactFunctions == {"Abs", "Floor", "Ceil", "Max", "Min"}
\* no function pops a second value
BinaryFunctions_none == {}
BinaryFunctions == {"Max", "Min"}
\* the functions resolve has a match arm for
ResolvedFunctions ==
    {"Sin", "Cos", "Tan", "ASin", "ACos", "ATan", "Ln", "Log", "Abs", "Max",
     "Min", "Sqrt", "Floor", "Ceil", "Round", "Exp"}

\* a factorial arm that takes the magnitude of a negative Integer and the
\* value of an integral Decimal
resolve_fac_lenient(right_value) ==
    IF is_exact(right_value) /\ value_of(right_value).denom = 1
    THEN IF abs(value_of(right_value).numer) > MaxFacArg THEN Unmodelled
         ELSE Ok(NaturalNumber(factorial_helper(abs(value_of(right_value).numer))))
    ELSE Err(FACTORIAL_NATURAL_ERR)

\* the arm Operator::Fac of resolve: the value to push, or what resolve returns
resolve_fac(right_value) ==
    IF is_natural(right_value)
    THEN IF right_value.v < 0 THEN Err(FACTORIAL_NATURAL_ERR)
         ELSE IF right_value.v > MaxFacArg THEN Unmodelled
         ELSE Ok(NaturalNumber(factorial_helper(right_value.v)))
    ELSE Err(FACTORIAL_NATURAL_ERR)

\* Token::Operator(op)
resolve_operator(op, rs0, vs0, heap) ==
    IF rs0 = << >> THEN eval_state(rs0, vs0, heap, Err(MALFORMED_ERR))
    ELSE
    LET right_value == Last(rs0)
        rs1    == Front(rs0)
        vs1    == pop_back(vs0)
        binary == op # "Une" /\ op # "Fac"
    IN  IF binary /\ rs1 = << >> THEN eval_state(rs1, vs1, heap, Err(MALFORMED_ERR))
        ELSE
        LET left_value == IF binary THEN Last(rs1) ELSE zero
            rs         == IF binary THEN Front(rs1) ELSE rs1
            left_var   == IF binary /\ vs1 # << >> THEN Last(vs1) ELSE NoneVar
            vs         == IF binary THEN pop_back(vs1) ELSE vs1
            push(n)    == eval_state(Append(rs, n), Append(vs, NoneVar), heap, Running)
            return(r)  == eval_state(rs, vs, heap, r)
            operands_modelled == in_range(left_value) /\ in_range(right_value)
        IN  CASE op = "Add" ->
                    IF ~operands_modelled THEN return(Unmodelled)
                    ELSE push(add(left_value, right_value))
              [] op = "Sub" ->
                    IF ~operands_modelled THEN return(Unmodelled)
                    ELSE push(sub(left_value, right_value))
              [] op = "Mul" ->
                    IF ~operands_modelled THEN return(Unmodelled)
                    ELSE push(mul(left_value, right_value))
              [] op = "Div" ->
                    IF number_eq(right_value, zero) THEN return(Err(DIVISION_ZERO_ERR))
                    ELSE IF ~operands_modelled THEN return(Unmodelled)
                    ELSE IF div_panics(to_decimal(left_value), right_value)
                    THEN return(Panicked)
                    ELSE push(div(to_decimal(left_value), right_value))
              [] op = "Pow" ->
                    IF ~operands_modelled THEN return(Unmodelled)
                    ELSE IF number_lt(right_value, zero) /\ number_eq(left_value, zero)
                    THEN return(Err(DIVISION_ZERO_ERR))
                    ELSE IF ~pow_modelled(left_value, right_value)
                    THEN return(Unmodelled)
                    ELSE LET base == IF number_lt(right_value, zero)
                                     THEN to_decimal(left_value) ELSE left_value
                         IN  IF bitxor_panics(base, right_value)
                                \/ (~(is_natural(base) /\ is_natural(right_value))
                                    /\ powf_panics(base, right_value))
                             THEN return(Panicked)
                             ELSE push(bitxor(base, right_value))
              [] op = "Eql" ->
                    IF left_var # NoneVar
                    THEN eval_state(Append(rs, right_value), Append(vs, NoneVar),
                                    heap_insert(heap, left_var[1], right_value), Running)
                    ELSE return(Err(NO_VARIABLE_ERR))
              [] op = "Fac" ->
                    LET r == resolve_fac(right_value)
                    IN  IF r.kind = "Ok" THEN push(r.value) ELSE return(r)
              [] op = "Une" ->
                    IF ~in_range(right_value) THEN return(Unmodelled)
                    ELSE push(mul(right_value, minus_one))

\* Token::Function(fun)
resolve_function(fun, rs0, vs0, heap) ==
    IF rs0 = << >> THEN eval_state(rs0, vs0, heap, Err(MALFORMED_ERR))
    ELSE
    LET value == Last(rs0)
        rs1   == Front(rs0)
        vs1   == pop_back(vs0)
    IN  IF fun \notin ResolvedFunctions THEN eval_state(rs1, vs1, heap, Unmodelled)
        ELSE IF fun \in BinaryFunctions
        THEN IF rs1 = << >> THEN eval_state(rs1, vs1, heap, Err(MALFORMED_ERR))
             ELSE LET value2 == Last(rs1)
                  IN  IF ~(f64_exact(value) /\ f64_exact(value2))
                      THEN eval_state(Front(rs1), pop_back(vs1), heap, Unmodelled)
                      ELSE eval_state(
                             Append(Front(rs1), DecimalNumber(math_function(fun, value, value2))),
                             Append(pop_back(vs1), NoneVar), heap, Running)
        ELSE IF fun \in ExactFunctions /\ ~f64_exact(value)
        THEN eval_state(rs1, vs1, heap, Unmodelled)
        ELSE eval_state(Append(rs1, DecimalNumber(math_function(fun, value, value))),
                        Append(vs1, NoneVar), heap, Running)

\* an iteration that remembers a name for the value of a literal too
resolve_token_named_operand(t, rs, vs, heap) ==
    CASE is_operand(t) ->
            eval_state(Append(rs, t.n), Append(vs, Some(<< "x" >>)), heap, Running)
      [] is_operator(t) -> resolve_operator(t.op, rs, vs, heap)
      [] is_variable(t) ->
            LET var_name == to_lowercase(t.s)
                n == IF var_name \in DOMAIN heap THEN heap[var_name]
                     ELSE DecimalNumber(BigRational_from(0))
            IN  eval_state(Append(rs, n), Append(vs, Some(var_name)), heap, Running)
      [] is_function(t) -> resolve_function(t.f, rs, vs, heap)
      [] t = SemiColon -> eval_state(<< >>, << >>, heap, Running)
      [] OTHER -> eval_state(rs, vs, heap, Err(MALFORMED_ERR))

\* a resolve whose operators and functions unwrap the value they pop
resolve_token_unwrap(t, rs, vs, heap) ==
    CASE is_operand(t) -> eval_state(Append(rs, t.n), Append(vs, NoneVar), heap, Running)
      [] is_operator(t) ->
            IF rs = << >> THEN eval_state(rs, vs, heap, Panicked)
            ELSE resolve_operator(t.op, rs, vs, heap)
      [] is_variable(t) ->
            LET var_name == to_lowercase(t.s)
                n == IF var_name \in DOMAIN heap THEN heap[var_name]
                     ELSE DecimalNumber(BigRational_from(0))
            IN  eval_state(Append(rs, n), Append(vs, Some(var_name)), heap, Running)
      [] is_function(t) ->
            IF rs = << >> THEN eval_state(rs, vs, heap, Panicked)
            ELSE resolve_function(t.f, rs, vs, heap)
      [] t = SemiColon -> eval_state(<< >>, << >>, heap, Running)
      [] OTHER -> eval_state(rs, vs, heap, Err(MALFORMED_ERR))
\* a resolve whose Variable arm stores the value it read
resolve_token_storing(t, rs, vs, heap) ==
    CASE is_operand(t) -> eval_state(Append(rs, t.n), Append(vs, NoneVar), heap, Running)
      [] is_operator(t) -> resolve_operator(t.op, rs, vs, heap)
      [] is_variable(t) ->
            LET var_name == to_lowercase(t.s)
                n == DecimalNumber(BigRational_from(0))
            IN  eval_state(Append(rs, n), Append(vs, Some(var_name)),
                           heap_insert(heap, var_name, n), Running)
      [] is_function(t) -> resolve_function(t.f, rs, vs, heap)
      [] t = SemiColon -> eval_state(<< >>, << >>, heap, Running)
      [] OTHER -> eval_state(rs, vs, heap, Err(MALFORMED_ERR))
\* one iteration of `for t in &self.rpn_expr`
resolve_token(t, rs, vs, heap) ==
    CASE is_operand(t) -> eval_state(Append(rs, t.n), Append(vs, NoneVar), heap, Running)
      [] is_operator(t) -> resolve_operator(t.op, rs, vs, heap)
      [] is_variable(t) ->
            LET var_name == to_lowercase(t.s)
                n == IF var_name \in DOMAIN heap THEN heap[var_name]
                     ELSE DecimalNumber(BigRational_from(0))
            IN  eval_state(Append(rs, n), Append(vs, Some(var_name)), heap, Running)
      [] is_function(t) -> resolve_function(t.f, rs, vs, heap)
      [] t = SemiColon -> eval_state(<< >>, << >>, heap, Running)
      [] OTHER -> eval_state(rs, vs, heap, Err(MALFORMED_ERR))

\* after the loop: var_stack.pop_front(); result_stack.pop_front().ok_or(..)
resolve_result(rs) == IF rs = << >> THEN Err(MALFORMED_ERR) ELSE Ok(Head(rs))

(***************************************************************************)
(* session.rs: Session                                                     *)
(***************************************************************************)
str_pi    == << "p", "i" >>
str_e     == << "e" >>
str_tau   == << "t", "a", "u" >>
str_phi   == << "p", "h", "i" >>
str_gamma == << "g", "a", "m", "m", "a" >>

init_local_heap ==
    LET consts == {str_pi, str_e, str_tau, str_phi, str_gamma}
    IN  [c \in consts |-> DecimalNumber(from_float_const(c))]

\* a set that stores under the key as it was given
Session_set_verbatim(heap, key, value) == heap_insert(heap, key, NaturalNumber(value))

\* Session::set(key, value) and Session::setf(key, value) on the heap
Session_set(heap, key, value) ==
    heap_insert(heap, to_lowercase(key), NaturalNumber(value))
\* value is the float numer/2
Session_setf(heap, key, numer) ==
    heap_insert(heap, to_lowercase(key), DecimalNumber(Ratio_new(numer, 2)))

(***************************************************************************)
(* The state: one Session with its variable heap, the line handed to       *)
(* Session::process, the RpnResolver it returned, and the position and     *)
(* locals of a running resolve.                                            *)
(***************************************************************************)
VARIABLES
    line,           \* the source text given to Session::process
    tree,           \* the expression the client wrote line from (NoTree: none)
    local_heap,     \* Session::variable_heap, shared with the resolver
    rpn_expr,       \* RpnResolver::rpn_expr
    pc,             \* "new" (no resolver yet), "idle", "resolve"
    pos,            \* the index in rpn_expr of the next token of resolve
    result_stack,   \* resolve's result_stack (top last)
    var_stack,      \* resolve's var_stack
    outcome,        \* what the last resolve returned (Running until it does)
    infix_stack,    \* the tokens Parser::parse gave to reverse_polish_notation
    heap_at_begin,  \* the heap when the last resolve was called
    calls,          \* the number of resolve, set and setf calls so far
    resolvers,      \* the other RpnResolvers the Session made, not in use now
    previous        \* what the resolver in use returned the last time, with no
                    \* set or setf since (Running: nothing)

vars == << line, tree, local_heap, rpn_expr, pc, pos, result_stack, var_stack, outcome,
           infix_stack, heap_at_begin, calls, resolvers, previous >>

\* Session::init() and a line to process, with the expression it was written from
InitWith(inputs) ==
    /\ \E input \in inputs : line = input.text /\ tree = input.tree
    /\ local_heap = init_local_heap
    /\ rpn_expr = << >>
    /\ pc = "new"
    /\ pos = 0
    /\ result_stack = << >>
    /\ var_stack = << >>
    /\ outcome = Running
    /\ infix_stack = << >>
    /\ heap_at_begin = init_local_heap
    /\ calls = 0
    /\ resolvers = << >>
    /\ previous = Running

\* Session::process(line)
Process ==
    /\ pc = "new"
    /\ LET r == parse_with_borrowed_heap(line, local_heap)
       IN  /\ rpn_expr' = r[1]
           /\ local_heap' = r[2]
           /\ pc' = IF r[3] THEN "aborted" ELSE "idle"
           /\ outcome' = IF r[3] THEN Panicked ELSE outcome
    /\ infix_stack' = Parser_parse(line)
    /\ UNCHANGED << line, tree, pos, result_stack, var_stack, heap_at_begin, calls,
                    resolvers, previous >>

\* RpnResolver::resolve is called: its locals are created
ResolveBegin ==
    /\ pc = "idle"
    /\ calls < MaxCalls
    /\ calls' = calls + 1
    /\ pc' = "resolve"
    /\ pos' = 1
    /\ result_stack' = << >>
    /\ var_stack' = << >>
    /\ outcome' = Running
    /\ heap_at_begin' = local_heap
    /\ UNCHANGED << line, tree, local_heap, rpn_expr, infix_stack, resolvers, previous >>

\* one token of resolve's loop; an Err or a panic ends resolve
ResolveStep ==
    /\ pc = "resolve"
    /\ pos <= Len(rpn_expr)
    /\ LET st == resolve_token(rpn_expr[pos], result_stack, var_stack, local_heap)
       IN  /\ st.ret # Unmodelled
           /\ result_stack' = st.result_stack
           /\ var_stack' = st.var_stack
           /\ local_heap' = st.local_heap
           /\ outcome' = st.ret
           /\ pc' = IF st.ret = Running THEN "resolve" ELSE "idle"
           /\ pos' = IF st.ret = Running THEN pos + 1 ELSE pos
           /\ previous' = IF st.ret = Running THEN previous ELSE st.ret
    /\ UNCHANGED << line, tree, rpn_expr, infix_stack, heap_at_begin, calls, resolvers >>

\* the end of resolve's loop: the front of the stack, or MALFORMED_ERR
ResolveReturn ==
    /\ pc = "resolve"
    /\ pos > Len(rpn_expr)
    /\ outcome' = resolve_result(result_stack)
    /\ previous' = resolve_result(result_stack)
    /\ result_stack' = IF result_stack = << >> THEN << >> ELSE Tail(result_stack)
    /\ var_stack' = IF var_stack = << >> THEN << >> ELSE Tail(var_stack)
    /\ pc' = "idle"
    /\ UNCHANGED << line, tree, local_heap, rpn_expr, pos, infix_stack, heap_at_begin, calls,
                    resolvers >>

\* the keys and values of the Session::set / setf calls of the model
SetKeys == { << "x" >>, << "X" >> }
SetValues == (0 - MaxSetValue)..MaxSetValue

\* Session::set(key, value), between two calls of the resolver
Set ==
    /\ pc \in {"new", "idle"}
    /\ calls < MaxCalls
    /\ calls' = calls + 1
    /\ \E key \in SetKeys, value \in SetValues :
           local_heap' = Session_set(local_heap, key, value)
    /\ previous' = Running
    /\ UNCHANGED << line, tree, rpn_expr, pc, pos, result_stack, var_stack, outcome,
                    infix_stack, heap_at_begin, resolvers >>

\* Session::setf(key, value) with value = numer / 2
Setf ==
    /\ pc \in {"new", "idle"}
    /\ calls < MaxCalls
    /\ calls' = calls + 1
    /\ \E key \in SetKeys, numer \in SetValues :
           local_heap' = Session_setf(local_heap, key, numer)
    /\ previous' = Running
    /\ UNCHANGED << line, tree, rpn_expr, pc, pos, result_stack, var_stack, outcome,
                    infix_stack, heap_at_begin, resolvers >>

\* a session whose client only processes and resolves
NextResolve == Process \/ ResolveBegin \/ ResolveStep \/ ResolveReturn

Next == Process \/ ResolveBegin \/ ResolveStep \/ ResolveReturn \/ Set \/ Setf

(***************************************************************************)
(* The lines of the model.  An arithmetic line is written from an          *)
(* expression tree with the fewest parentheses the conventional rules      *)
(* need; tree_value is the value of the tree in exact integer arithmetic.  *)
(***************************************************************************)
NoTree == [t |-> "none"]
Lit(n) == [t |-> "lit", v |-> n]
Var(name) == [t |-> "var", s |-> name]
Bin(op, l, r) == [t |-> "bin", op |-> op, l |-> l, r |-> r]
Fac(a) == [t |-> "fac", a |-> a]
Assign(name, e) == [t |-> "assign", s |-> name, e |-> e]

Then(first, second) == [t |-> "seq", first |-> first, second |-> second]

Call(f, a, b) == [t |-> "call", f |-> f, a |-> a, b |-> b]

free(text) == [text |-> text, tree |-> NoTree]

Literals == { Lit(n) : n \in 0..MaxLit }
TreesOver(ops, subtrees) ==
    subtrees \cup { Bin(op, l, r) : op \in ops, l \in subtrees, r \in subtrees }

\* conventional precedence and grouping
conv_prec(op) == CASE op \in {"+", "-"} -> 1 [] op = "*" -> 2 [] op = "^" -> 3
conv_right(op) == op = "^"

RECURSIVE show_nat(_)
show_nat(n) ==
    IF n < 10 THEN << Digits[n + 1] >>
    ELSE show_nat(n \div 10) \o << Digits[(n % 10) + 1] >>

RECURSIVE show(_)
show(tr) ==
    LET paren(c) == << "(" >> \o show(c) \o << ")" >>
    IN  CASE tr.t = "lit" -> show_nat(tr.v)
          [] tr.t = "var" -> tr.s
          [] tr.t = "fac" -> (IF tr.a.t \in {"lit", "var"} THEN show(tr.a) ELSE paren(tr.a))
                                \o << "!" >>
          [] tr.t = "assign" -> tr.s \o << "=" >> \o show(tr.e)
          [] tr.t = "bin" ->
                LET wrap(c, side) ==
                        IF \/ c.t = "assign"
                           \/ /\ c.t = "bin"
                              /\ \/ conv_prec(c.op) < conv_prec(tr.op)
                                 \/ /\ conv_prec(c.op) = conv_prec(tr.op)
                                    /\ (side = "r") # conv_right(tr.op)
                        THEN paren(c)
                        ELSE show(c)
                IN  wrap(tr.l, "l") \o << tr.op >> \o wrap(tr.r, "r")

\* the value of an arithmetic tree in exact integer arithmetic
RECURSIVE tree_value(_)
tree_value(tr) ==
    IF tr.t = "lit" THEN tr.v
    ELSE LET a == tree_value(tr.l)
             b == tree_value(tr.r)
         IN  CASE tr.op = "+" -> a + b
               [] tr.op = "-" -> a - b
               [] tr.op = "*" -> a * b
               [] tr.op = "^" -> int_pow(a, b)

\* the value of a tree with variables and assignments in an environment, and
\* the environment it leaves, evaluated left to right
RECURSIVE tree_eval(_, _)
tree_eval(tr, env) ==
    CASE tr.t = "lit" -> [val |-> NaturalNumber(tr.v), env |-> env]
      [] tr.t = "var" -> [val |-> env[to_lowercase(tr.s)], env |-> env]
      [] tr.t = "fac" ->
            LET a == tree_eval(tr.a, env)
            IN  [val |-> NaturalNumber(factorial_helper(a.val.v)), env |-> a.env]
      [] tr.t = "assign" ->
            LET e == tree_eval(tr.e, env)
            IN  [val |-> e.val, env |-> heap_insert(e.env, to_lowercase(tr.s), e.val)]
      [] tr.t = "bin" ->
            LET l == tree_eval(tr.l, env)
                r == tree_eval(tr.r, l.env)
            IN  [val |-> CASE tr.op = "+" -> add(l.val, r.val)
                           [] tr.op = "-" -> sub(l.val, r.val)
                           [] tr.op = "*" -> mul(l.val, r.val)
                           [] tr.op = "^" -> bitxor(l.val, r.val),
                 env |-> r.env]

written(tr) == [text |-> show(tr), tree |-> tr]

\* a call f(a,b) of max or min, its arguments being arithmetic or calls
RECURSIVE show_call(_)
show_call(tr) ==
    IF tr.t = "call"
    THEN (IF tr.f = "Max" THEN << "m", "a", "x" >> ELSE << "m", "i", "n" >>)
            \o << "(" >> \o show_call(tr.a) \o << "," >> \o show_call(tr.b) \o << ")" >>
    ELSE show(tr)

\* the value of a call tree in exact integer arithmetic
RECURSIVE call_value(_)
call_value(tr) ==
    IF tr.t = "call"
    THEN LET a == call_value(tr.a)
             b == call_value(tr.b)
         IN  IF tr.f = "Max" THEN (IF a < b THEN b ELSE a) ELSE (IF b < a THEN b ELSE a)
    ELSE tree_value(tr)

\* the postfix sequence of a tree: each operand sequence in full, then the
\* operator or the function
RECURSIVE postfix_of(_)
postfix_of(tr) ==
    CASE tr.t = "lit" -> << Operand(NaturalNumber(tr.v)) >>
      [] tr.t = "bin" ->
            postfix_of(tr.l) \o postfix_of(tr.r)
                \o << Operator(CASE tr.op = "+" -> "Add" [] tr.op = "-" -> "Sub"
                                  [] tr.op = "*" -> "Mul" [] tr.op = "^" -> "Pow") >>
      [] tr.t = "call" -> postfix_of(tr.a) \o postfix_of(tr.b) \o << Function(tr.f) >>

written_call(tr) == [text |-> show_call(tr), tree |-> tr]
\* two statements on one line: first;second
statements(first, second) ==
    [text |-> show(first) \o << ";" >> \o show(second), tree |-> Then(first, second)]

\* all strings over an alphabet up to a length
RECURSIVE strings(_, _)
strings(alphabet, n) ==
    IF n = 0 THEN { << >> }
    ELSE LET shorter == strings(alphabet, n - 1)
         IN  shorter \cup { Append(str, c) : str \in shorter, c \in alphabet }

\* (3+4*(2-(3+1)*5+3)-6)*2+4
ExampleTree ==
    Bin("+",
        Bin("*",
            Bin("-",
                Bin("+", Lit(3),
                    Bin("*", Lit(4),
                        Bin("+",
                            Bin("-", Lit(2), Bin("*", Bin("+", Lit(3), Lit(1)), Lit(5))),
                            Lit(3)))),
                Lit(6)),
            Lit(2)),
        Lit(4))

\* integer literals, + - * and parentheses
ArithOps == {"+", "-", "*"}
ArithTrees == TreesOver(ArithOps, TreesOver(ArithOps, Literals)) \cup {ExampleTree}
ArithInputs == { written(tr) : tr \in ArithTrees }

\* powers among sums and products; 2^3^2
PowOps == {"+", "*", "^"}
PowExampleTree == Bin("^", Lit(2), Bin("^", Lit(3), Lit(2)))
PowTrees == TreesOver(PowOps, TreesOver(PowOps, Literals)) \cup {PowExampleTree}
PowInputs == { written(tr) : tr \in PowTrees }

\* free-form lines, well-formed or not
FreeAlphabet == {"1", "5", "+", "-", "*", "!", "(", ")", " ", "."}
FactorialsLine   == << "4", "!", " ", "-", " ", "3", "!" >>
UnaryLine        == << "-", "(", "+", "(", "-", "5", "*", "-", "5", ")", ")" >>
NegativeFacLine  == << "(", "-", "1", ")", "!" >>
DecimalFacLine   == << "2", ".", "5", "!" >>
TwoValuesLine    == << "1", " ", "2" >>
TwoArgumentsLine == << "s", "i", "n", "(", "1", ",", "2", ")" >>
ZeroFacLine      == << "0", "!" >>
FreeSamples ==
    { FactorialsLine, UnaryLine, NegativeFacLine, DecimalFacLine, TwoValuesLine,
      TwoArgumentsLine, ZeroFacLine,
      << "2", "!", "+", "2", "!" >>,
      << "m", "i", "n", "(", ")" >> }
FreeInputs == { free(str) : str \in strings(FreeAlphabet, MaxLineLen) \cup FreeSamples }

\* one operator between two operands that are Integers or Decimals
OpsAtoms == { show_nat(n) : n \in 0..MaxLit } \cup { << ".", "5" >>, << "x" >> }
ExactDivisionLine == << "4", "/", "2" >>
IntegerSumLine    == << "4", "+", "2" >>
DecimalZeroLine   == << "1", "/", "(", "0", "/", "1", ")" >>
OpsSamples ==
    { ExactDivisionLine, IntegerSumLine, DecimalZeroLine,
      << "1", "+", "2", "/", "2", "*", "x" >> }
OpsInputs ==
    { free(a \o << op >> \o b) : a \in OpsAtoms, b \in OpsAtoms, op \in {"+", "-", "*", "/"} }
        \cup { free(str) : str \in OpsSamples }

\* assignments v = expr
AssignNames == { << "x" >>, << "X" >>, << "y" >> }
AssignAtoms == Literals \cup { Var(<< "x" >>), Var(<< "y" >>) }
AssignRhs ==
    AssignAtoms
        \cup { Bin(op, a, b) : op \in {"+", "*"}, a \in AssignAtoms, b \in Literals }
        \cup { Assign(<< "y" >>, a) : a \in AssignAtoms }
        \cup { Fac(a) : a \in Literals }
        \cup { Bin("-", Fac(a), b) : a \in Literals, b \in Literals }
AssignInputs == { written(Assign(v, e)) : v \in AssignNames, e \in AssignRhs }

\* statements: an Assign whose left side is a variable, a literal or a
\* computed value
LiteralLeftLine  == << "3", " ", "=", " ", "5" >>
ComputedLeftLine == << "x", " ", "+", " ", "1", " ", "=", " ", "5" >>
FunctionLeftLine == << "s", "i", "n", "(", "x", ")", " ", "=", " ", "2" >>
AssignThenFailLine   == << "x", "=", "5", ";", "1", "/", "0" >>
AssignInsideFailLine == << "(", "x", "=", "5", ")", "/", "0" >>
StatementLhs ==
    { << "3" >>, << "x", "+", "1" >>, << "s", "i", "n", "(", "x", ")" >>,
      << "x" >>, << "(", "x", ")" >>, << "-", "x" >>, << "+", "x" >>,
      << "x", "!" >>, << "a", "b", "s", "(", "x", ")" >>, << "2", " ", "x" >> }
StatementRhs ==
    { << "5" >>, << "x", "+", "1" >>, << "1", "/", "0" >>, << "y", "=", "2" >> }
StatementSamples ==
    { LiteralLeftLine, ComputedLeftLine, FunctionLeftLine,
      AssignThenFailLine, AssignInsideFailLine,
      << "(", "x", "=", "1", ")", "+", "1", "=", "5" >> }
StatementInputs ==
    { free(l \o << "=" >> \o r) : l \in StatementLhs, r \in StatementRhs }
        \cup { free(str) : str \in StatementSamples }

\* two statements separated by a semicolon
SquareStatementsLine == << "x", "=", "1", "0", ";", "x", "^", "2" >>
FirstStatements ==
    { Assign(<< "x" >>, a) : a \in Literals \cup {Lit(10)} } \cup Literals \cup {Var(<< "x" >>)}
LastStatements ==
    Literals
        \cup { Var(<< "x" >>), Bin("^", Var(<< "x" >>), Lit(2)), Bin("+", Var(<< "x" >>), Lit(1)),
               Assign(<< "y" >>, Var(<< "x" >>)) }
StatementsInputs == { statements(a, b) : a \in FirstStatements, b \in LastStatements }

\* the lines of a session with several resolvers
SquareLine == << "x", " ", "^", " ", "2" >>
SessionTrees ==
    { Assign(<< "x" >>, Lit(5)), Assign(<< "X" >>, Var(<< "y" >>)),
      Assign(<< "y" >>, Bin("*", Var(<< "x" >>), Lit(2))), Var(<< "e" >>),
      Bin("+", Var(<< "p", "i" >>), Var(<< "x" >>)) }
SessionInputs ==
    { written(tr) : tr \in SessionTrees }
        \cup { [text |-> SquareLine, tree |-> Bin("^", Var(<< "x" >>), Lit(2))] }

\* the lines of the resolvers the Session makes after its first
MoreInputs ==
    { written(Assign(<< "x" >>, Lit(5))), written(Assign(<< "X" >>, Var(<< "y" >>))) }

\* the resolver in use, as the Session made it
resolver == [line |-> line, tree |-> tree, rpn_expr |-> rpn_expr, infix_stack |-> infix_stack]

\* Session::process(line) of a Session that has made a resolver already: the
\* new resolver is the one in use from now on
ProcessMore ==
    /\ pc = "idle"
    /\ Len(resolvers) + 1 < MaxResolvers
    /\ \E input \in MoreInputs :
           LET r == parse_with_borrowed_heap(input.text, local_heap)
           IN  /\ line' = input.text
               /\ tree' = input.tree
               /\ rpn_expr' = r[1]
               /\ local_heap' = r[2]
               /\ infix_stack' = Parser_parse(input.text)
    /\ resolvers' = Append(resolvers, resolver)
    /\ previous' = Running
    /\ UNCHANGED << pc, pos, result_stack, var_stack, outcome, heap_at_begin, calls >>

\* the client turns to another of its resolvers
Turn ==
    /\ pc = "idle"
    /\ \E i \in DOMAIN resolvers :
           /\ line' = resolvers[i].line
           /\ tree' = resolvers[i].tree
           /\ rpn_expr' = resolvers[i].rpn_expr
           /\ infix_stack' = resolvers[i].infix_stack
           /\ resolvers' = [resolvers EXCEPT ![i] = resolver]
    /\ previous' = Running
    /\ UNCHANGED << local_heap, pc, pos, result_stack, var_stack, outcome, heap_at_begin,
                    calls >>

\* reverse_polish_notation applied to the tokens of infix_stack
Compile ==
    /\ pc = "tokens"
    /\ LET r == reverse_polish_notation(infix_stack, local_heap)
       IN  /\ rpn_expr' = r[1]
           /\ local_heap' = r[2]
           /\ pc' = IF r[3] THEN "aborted" ELSE "idle"
           /\ outcome' = IF r[3] THEN Panicked ELSE outcome
    /\ UNCHANGED << line, tree, infix_stack, pos, result_stack, var_stack, heap_at_begin,
                    calls, resolvers, previous >>

NextTokens == Compile \/ ResolveBegin \/ ResolveStep \/ ResolveReturn

\* a session whose client makes several resolvers
NextSession ==
    Process \/ ResolveBegin \/ ResolveStep \/ ResolveReturn \/ Set \/ Setf
        \/ ProcessMore \/ Turn

\* one power between two operands that are Integers or Decimals, the
\* exponent with a sign or without
NegativePowerLine == << "2", "^", "-", "2" >>
DecimalZeroPowerLine == << "0", ".", "0", "^", "-", "1" >>
PowerBases == { show_nat(n) : n \in 0..MaxLit } \cup { << ".", "5" >>, << "0", ".", "0" >>, << "2", ".", "0" >> }
PowerExponents == PowerBases \cup { << "-" >> \o b : b \in PowerBases }
PowerInputs ==
    { free(a \o << "^" >> \o b) : a \in PowerBases, b \in PowerExponents }
        \cup { free(<< "(", "-" >> \o a \o << ")", "^" >> \o b) : a \in PowerBases, b \in PowerExponents }
        \cup { free(NegativePowerLine), free(DecimalZeroPowerLine) }

\* calls of the math functions on Integers and Decimals
AbsLine == << "a", "b", "s", "(", "-", "3", ")" >>
MaxLine == << "m", "a", "x", "(", "1", ",", "2", ")" >>
FunctionNames ==
    { << "s", "i", "n" >>, << "c", "o", "s" >>, << "t", "a", "n" >>,
      << "a", "s", "i", "n" >>, << "a", "c", "o", "s" >>, << "a", "t", "a", "n" >>,
      << "l", "n" >>, << "l", "o", "g" >>, << "a", "b", "s" >>,
      << "s", "q", "r", "t" >>, << "m", "a", "x" >>, << "m", "i", "n" >>,
      << "f", "l", "o", "o", "r" >>, << "c", "e", "i", "l" >>, << "r", "o", "u", "n", "d" >>,
      << "e", "x", "p" >> }
FunctionArguments ==
    { show_nat(n) : n \in 0..MaxLit } \cup { << ".", "5" >>, << "-", "3" >>, << "2", ".", "5" >> }
FunctionInputs ==
    { free(f \o << "(" >> \o a \o << ")" >>) : f \in FunctionNames, a \in FunctionArguments }
        \cup { free(f \o << "(" >> \o a \o << "," >> \o b \o << ")" >>) :
                   f \in { << "m", "a", "x" >>, << "m", "i", "n" >> }, a \in FunctionArguments, b \in FunctionArguments }
        \cup { free(<< "5", "+" >> \o f \o << "(", "1", ")" >>) : f \in FunctionNames }
        \cup { free(AbsLine), free(MaxLine) }

\* calls of max and min with arithmetic arguments, nested or not
NestedCallTree == Call("Min", Call("Max", Lit(1), Lit(2)), Lit(3))
TwoNestedCallsTree == Call("Min", Call("Max", Lit(2), Lit(3)), Call("Max", Lit(5), Lit(1)))
ComputedArgumentsTree ==
    Call("Max", Bin("+", Lit(1), Lit(2)), Bin("*", Lit(3), Lit(4)))
CallArguments ==
    Literals \cup { Bin(op, a, b) : op \in {"+", "*"}, a \in Literals, b \in Literals }
CallTrees ==
    { Call(f, a, b) : f \in {"Max", "Min"}, a \in CallArguments, b \in CallArguments }
        \cup { NestedCallTree, TwoNestedCallsTree, ComputedArgumentsTree }
CallInputs == { written_call(tr) : tr \in CallTrees }

\* lines with separators and square brackets
SeparatorAlphabet == {"1", "x", ",", ";", "[", "]", "("}
SeparatorInputs ==
    { free(str) : str \in strings(SeparatorAlphabet, MaxLineLen) \cup {SquareStatementsLine} }

\* '-a^b', 'a^-b' and '-a^-b' over literal operands, and the lines of the tests
SignedOperands == PowerBases
minus_power(a, b) == << "-" >> \o a \o << "^" >> \o b
power_minus(a, b) == a \o << "^", "-" >> \o b
minus_power_minus(a, b) == << "-" >> \o a \o << "^", "-" >> \o b
AbsSquareLine == << "a", "b", "s", "(", "-", "5", "^", "2", ")" >>
MinusPowerMinusLine == << "-", "2", "^", "-", "2" >>
SignedInputs ==
    { free(minus_power(a, b)) : a \in SignedOperands, b \in SignedOperands }
        \cup { free(power_minus(a, b)) : a \in SignedOperands, b \in SignedOperands }
        \cup { free(minus_power_minus(a, b)) : a \in SignedOperands, b \in SignedOperands }
        \cup { free(AbsSquareLine), free(NegativePowerLine) }
\* lines over one variable name written in both cases
CaseAlphabet == { "x", "X", "=", "1" }
CaseInputs == { free(s) : s \in strings(CaseAlphabet, MaxLineLen) }
\* token sequences, with the tokens of 'max(1,1)' as the lexer should give them
TokenAlphabet ==
    { Operand(NaturalNumber(1)), Variable(<< "x" >>), Bracket("Open"), Bracket("Close"),
      Comma, SemiColon, Operator("Add"), Operator("Une"), Operator("Fac"), Operator("Eql"),
      Function("Max") }
MaxCallTokens ==
    << Function("Max"), Bracket("Open"), Operand(NaturalNumber(1)), Comma,
       Operand(NaturalNumber(1)), Bracket("Close") >>
\* 'max()' and 'min()'
MaxEmptyLine == << "m", "a", "x", "(", ")" >>
MinEmptyLine == << "m", "i", "n", "(", ")" >>
MaxEmptyTokens == << Function("Max"), Bracket("Open"), Bracket("Close") >>
MinEmptyTokens == << Function("Min"), Bracket("Open"), Bracket("Close") >>
TokenInputs == strings(TokenAlphabet, MaxTokens) \cup { MaxCallTokens, MaxEmptyTokens, MinEmptyTokens }
InitTokens ==
    /\ infix_stack \in TokenInputs
    /\ line = << >>
    /\ tree = NoTree
    /\ local_heap = init_local_heap
    /\ rpn_expr = << >>
    /\ pc = "tokens"
    /\ pos = 0
    /\ result_stack = << >>
    /\ var_stack = << >>
    /\ outcome = Running
    /\ heap_at_begin = init_local_heap
    /\ calls = 0
    /\ resolvers = << >>
    /\ previous = Running
\* a sign right after a ',' or a ';'
MaxSignedLine == << "m", "a", "x", "(", "1", ",", "-", "2", ")" >>
NegatedStatementLine == << "x", "=", "1", ";", "-", "x" >>
SignedNames == { << "m", "a", "x" >>, << "m", "i", "n" >> }
SignedAtoms == { show_nat(n) : n \in 0..MaxLit } \cup { << "x" >> }
SignInputs ==
    { free(f \o << "(" >> \o a \o << ",", s >> \o b \o << ")" >>) :
          f \in SignedNames, a \in SignedAtoms, b \in SignedAtoms, s \in {"-", "+"} }
        \cup { free(<< "x", "=" >> \o a \o << ";", s >> \o b) :
                   a \in SignedAtoms, b \in SignedAtoms, s \in {"-", "+"} }
        \cup { free(MaxSignedLine), free(NegatedStatementLine) }
XPlusOneLine == << "x", "+", "1" >>
InitArith  == InitWith(ArithInputs)
InitPow    == InitWith(PowInputs)
InitFree   == InitWith(FreeInputs)
InitOps    == InitWith(OpsInputs)
InitAssign == InitWith(AssignInputs)
InitStatement == InitWith(StatementInputs)
InitStatements == InitWith(StatementsInputs)
InitSession == InitWith(SessionInputs)
InitPower == InitWith(PowerInputs)
InitFunction == InitWith(FunctionInputs)
InitCall == InitWith(CallInputs)
InitSeparator == InitWith(SeparatorInputs)
InitSigned == InitWith(SignedInputs)
InitCase == InitWith(CaseInputs)
InitSign == InitWith(SignInputs)

SpecArith  == InitArith /\ [][NextResolve]_vars
SpecPow    == InitPow /\ [][NextResolve]_vars
SpecFree   == InitFree /\ [][NextResolve]_vars
SpecOps    == InitOps /\ [][Next]_vars
SpecAssign == InitAssign /\ [][Next]_vars
SpecStatement == InitStatement /\ [][Next]_vars
SpecStatements == InitStatements /\ [][NextResolve]_vars
SpecSession == InitSession /\ [][NextSession]_vars
SpecPower == InitPower /\ [][NextResolve]_vars
SpecFunction == InitFunction /\ [][NextResolve]_vars
SpecCall == InitCall /\ [][NextResolve]_vars
SpecSeparator == InitSeparator /\ [][NextResolve]_vars
SpecSigned == InitSigned /\ [][NextResolve]_vars
SpecCase == InitCase /\ [][Next]_vars
SpecTokens == InitTokens /\ [][NextTokens]_vars
SpecSign == InitSign /\ [][NextResolve]_vars

(***************************************************************************)
(* Arithmetic: precedence and grouping                                     *)
(***************************************************************************)
\* the last call of resolve has returned
returned == pc = "idle" /\ outcome # Running

\* C1: a line written from an expression of integer literals, + - * and
\* parentheses resolves to the Integer that is the exact value of the
\* expression under the conventional rules.
C1_ArithmeticValue ==
    returned => outcome = Ok(NaturalNumber(tree_value(tree)))

\* (3+4*(2-(3+1)*5+3)-6)*2+4 has resolved to -122
C1_Witness ==
    /\ returned
    /\ tree = ExampleTree
    /\ outcome = Ok(NaturalNumber(0 - 122))

RECURSIVE has_pow(_)
has_pow(tr) == tr.t = "bin" /\ (tr.op = "^" \/ has_pow(tr.l) \/ has_pow(tr.r))

\* C2: in an expression with powers, ^ groups to the right and binds tighter
\* than * and +: the line resolves to the Integer value of the expression read
\* that way.
C2_PowerRightAssociative ==
    (returned /\ has_pow(tree)) =>
        /\ outcome.kind = "Ok"
        /\ is_natural(outcome.value)
        /\ outcome.value.v = tree_value(tree)

\* 2^3^2 has resolved to 512 = 2^(3^2)
C2_Witness ==
    /\ returned
    /\ tree = PowExampleTree
    /\ line = << "2", "^", "3", "^", "2" >>
    /\ outcome = Ok(NaturalNumber(512))

(***************************************************************************)
(* Unary operators and Factorial                                           *)
(***************************************************************************)
\* the tokens Parser::parse hands to mod_unary_operators
lexed(text) == tokenize_vec(Parser_process(text))

is_fac(t) == is_operator(t) /\ t.op = "Fac"

\* C3: in mod_unary_operators the operand-expected flag is false after a
\* Factorial, so a + or - that follows a Factorial stays binary, and
\* '4! - 3!' resolves to the Integer 18.
C3_BinaryAfterFactorial ==
    /\ \A i \in 1..Len(lexed(line)) :
           is_fac(lexed(line)[i]) => ~mod_unary_loop(lexed(line), i).expect_operand_next
    /\ (returned /\ line = FactorialsLine) => outcome = Ok(NaturalNumber(18))

\* an operand is expected at position i of v: of the operands, variables and
\* operators before i, the last is an operator, or there is none (brackets,
\* functions and separators in between do not count; a Factorial is an operator)
operand_expected(v, i) ==
    LET before == { j \in 1..(i - 1) :
                        is_operand(v[j]) \/ is_variable(v[j]) \/ is_operator(v[j]) }
    IN  \/ before = {}
        \/ \E j \in before : is_operator(v[j]) /\ \A q \in before : q <= j

\* v without the Adds where an operand is expected and with Une for the Subs
\* there
unary_rewritten(v) ==
    LET unary(i) == is_operator(v[i]) /\ operand_expected(v, i)
        marked == [i \in 1..Len(v) |->
                      IF unary(i) /\ v[i].op = "Add" THEN [drop |-> TRUE, token |-> v[i]]
                      ELSE IF unary(i) /\ v[i].op = "Sub"
                      THEN [drop |-> FALSE, token |-> Operator("Une")]
                      ELSE [drop |-> FALSE, token |-> v[i]]]
        kept(m) == ~m.drop
        left == SelectSeq(marked, kept)
    IN  [i \in 1..Len(left) |-> left[i].token]

at_operator(op) ==
    /\ pc = "resolve"
    /\ pos <= Len(rpn_expr)
    /\ is_operator(rpn_expr[pos])
    /\ rpn_expr[pos].op = op

\* C8: Factorial of a negative Integer or of a Decimal, integral or not, makes
\* resolve return the factorial-domain error, and no result is pushed: the
\* operand is gone from the stack.
C8_FactorialDomain ==
    [][ ( /\ at_operator("Fac")
          /\ result_stack # << >>
          /\ IF is_natural(Last(result_stack))
             THEN Last(result_stack).v < 0
             ELSE TRUE )
        => ( /\ outcome' = Err(FACTORIAL_NATURAL_ERR)
             /\ pc' = "idle"
             /\ result_stack' = Front(result_stack) ) ]_vars

\* '(-1)!' has resolved to the factorial-domain error
C8_Witness ==
    /\ returned
    /\ line = NegativeFacLine
    /\ rpn_expr[pos] = Operator("Fac")
    /\ result_stack = << >>
    /\ outcome = Err(FACTORIAL_NATURAL_ERR)

\* C9: resolve returns a value only if exactly one value is on the result
\* stack after the last token; with none or more than one it returns the
\* malformed-expression error.
C9_ExactlyOneValue ==
    [][ (pc = "resolve" /\ pos > Len(rpn_expr))
        => outcome' = IF Len(result_stack) = 1
                      THEN Ok(result_stack[1])
                      ELSE Err(MALFORMED_ERR) ]_vars

(***************************************************************************)
(* The two variants of Number                                              *)
(***************************************************************************)
\* resolve is at the binary operator op with both operands on the stack
at_binary(op) == at_operator(op) /\ Len(result_stack) >= 2
left_operand  == result_stack[Len(result_stack) - 1]
right_operand == result_stack[Len(result_stack)]

\* C5: Div always pushes a Decimal, also for two Integers that divide exactly
\* ('4/2' is the Decimal 2); Add, Sub and Mul push an Integer for two Integers
\* ('4+2' is the Integer 6) and a Decimal as soon as one operand is a Decimal.
C5_DivisionPromotes ==
    [][ /\ (at_binary("Div") /\ outcome' = Running)
            => is_decimal(Last(result_stack'))
        /\ \A op \in {"Add", "Sub", "Mul"} :
              (at_binary(op) /\ outcome' = Running)
                  => (is_natural(Last(result_stack'))
                         <=> (is_natural(left_operand) /\ is_natural(right_operand)))
        /\ (returned' /\ line = ExactDivisionLine)
              => outcome' = Ok(DecimalNumber(BigRational_from(2)))
        /\ (returned' /\ line = IntegerSumLine)
              => outcome' = Ok(NaturalNumber(6)) ]_vars

\* '4/2' has resolved to the Decimal 2
C5_Witness ==
    /\ returned
    /\ line = ExactDivisionLine
    /\ outcome = Ok(DecimalNumber(BigRational_from(2)))

\* C6: when the right operand of Div is zero, the Integer 0 or a Decimal of
\* value 0, resolve returns the division-by-zero error.
C6_DivisionByZero ==
    [][ ( /\ at_binary("Div")
          /\ is_exact(right_operand)
          /\ value_of(right_operand).numer = 0 )
        => outcome' = Err(DIVISION_ZERO_ERR) ]_vars

\* the exact Numbers of the session: on resolve's stack and in the heap
session_numbers ==
    { result_stack[i] : i \in DOMAIN result_stack }
        \cup { local_heap[k] : k \in { q \in DOMAIN local_heap : is_exact(local_heap[q]) } }

\* C7: == on Numbers is by value across the variants: NaturalNumber(n) ==
\* DecimalNumber(n), and a == b exactly when partial_cmp(a, b) is Equal.
C7_EqualityByValue ==
    /\ \A a \in session_numbers : is_natural(a) => number_eq(a, to_decimal(a))
    /\ \A a \in session_numbers : \A b \in session_numbers :
           number_eq(a, b) <=> partial_cmp(a, b) = "Equal"

(***************************************************************************)
(* Assignment                                                              *)
(***************************************************************************)
\* C10: resolving 'v = expr' stores the value of expr in the heap under the
\* lowercased name of v and returns that value; = has the lowest precedence
\* and groups to the right, so that the line resolves to the value of its
\* expression read that way and leaves the heap that reading leaves.
C10_Assignment ==
    [][ (pc = "resolve" /\ pc' = "idle")
        => /\ outcome' = Ok(tree_eval(tree, heap_at_begin).val)
           /\ local_heap' = tree_eval(tree, heap_at_begin).env ]_vars

\* the stack of a postfix sequence after its first n tokens, each entry
\* being the index of the token that pushed it (<< >> once the sequence is
\* malformed)
RECURSIVE producers(_, _)
producers(e, n) ==
    IF n = 0 THEN << >>
    ELSE LET st == producers(e, n - 1)
             t  == e[n]
             arity == CASE is_operator(t) -> IF t.op \in {"Une", "Fac"} THEN 1 ELSE 2
                        [] is_function(t) -> IF t.f \in BinaryFunctions THEN 2 ELSE 1
                        [] OTHER -> 0
         IN  IF t = SemiColon \/ Len(st) < arity THEN << >>
             ELSE Append(SubSeq(st, 1, Len(st) - arity), n)

\* the token that pushed the left operand of the binary operator at pos
left_producer ==
    LET st == producers(rpn_expr, pos - 1)
    IN  rpn_expr[st[Len(st) - 1]]

\* C11: when the left operand of Assign was not pushed by a Variable token (a
\* literal, or the result of an operator or of a function), resolve returns
\* the no-variable error and the Assign writes nothing to the heap; '3 = 5',
\* 'x + 1 = 5' and 'sin(x) = 2' return that error with the heap as it was.
C11_NoVariableForAssignment ==
    [][ /\ (at_binary("Eql") /\ ~is_variable(left_producer))
            => (outcome' = Err(NO_VARIABLE_ERR) /\ local_heap' = local_heap)
        /\ (pc = "resolve" /\ pc' = "idle"
                /\ line \in {LiteralLeftLine, ComputedLeftLine, FunctionLeftLine})
            => (outcome' = Err(NO_VARIABLE_ERR) /\ local_heap' = heap_at_begin') ]_vars

\* 'sin(x) = 2' has returned the no-variable error at its Assign, whose left
\* operand the function had pushed, and the heap is as resolve found it
C11_Witness ==
    /\ returned
    /\ line = FunctionLeftLine
    /\ rpn_expr[pos] = Operator("Eql")
    /\ is_function(rpn_expr[pos - 2])
    /\ outcome = Err(NO_VARIABLE_ERR)
    /\ local_heap = heap_at_begin


\* C12: the statements of a line s1;s2 are evaluated left to right: resolve
\* empties its stack at each SemiColon token, returns the value of the last
\* statement in the heap the first one left, and leaves the heap the two
\* statements leave; 'x=10;x^2' returns the Integer 100 and leaves x = 10.
C12_StatementsInOrder ==
    [][ /\ (pc = "resolve" /\ pos <= Len(rpn_expr) /\ rpn_expr[pos] = SemiColon)
            => result_stack' = << >>
        /\ (pc = "resolve" /\ pc' = "idle")
            => LET s1 == tree_eval(tree.first, heap_at_begin)
                   sn == tree_eval(tree.second, s1.env)
               IN  /\ outcome' = Ok(sn.val)
                   /\ local_heap' = sn.env
        /\ (pc = "resolve" /\ pc' = "idle" /\ line = SquareStatementsLine)
            => /\ outcome' = Ok(NaturalNumber(100))
               /\ local_heap'[<< "x" >>] = NaturalNumber(10) ]_vars


(***************************************************************************)
(* The Environment of a Session                                            *)
(***************************************************************************)
\* a step that is a call of Session::set or Session::setf
set_called == calls' = calls + 1 /\ pc' = pc

\* the Numbers a set or setf call of the model stores
set_numbers ==
    { NaturalNumber(v) : v \in SetValues } \cup { DecimalNumber(Ratio_new(v, 2)) : v \in SetValues }

\* C13: the heap is one object shared by the Session and all its resolvers:
\* a set or setf call changes the entry of the lowercased key and nothing
\* else; every resolve, of a resolver made before or after the change,
\* returns the value of its expression in the heap as it is when resolve is
\* called and leaves its assignments there; resolve leaves the postfix
\* sequence as it is; 'x ^ 2' returns the Integer i*i when x is the Integer i.
C13_SharedEnvironment ==
    [][ /\ set_called
            => \E key \in SetKeys, n \in set_numbers :
                   /\ DOMAIN local_heap' = DOMAIN local_heap \cup {to_lowercase(key)}
                   /\ local_heap'[to_lowercase(key)] = n
                   /\ \A k \in DOMAIN local_heap \ {to_lowercase(key)} :
                          local_heap'[k] = local_heap[k]
        /\ (pc = "resolve" /\ pc' = "idle")
            => /\ outcome' = Ok(tree_eval(tree, heap_at_begin).val)
               /\ local_heap' = tree_eval(tree, heap_at_begin).env
        /\ pc = "resolve" => rpn_expr' = rpn_expr
        /\ (pc = "resolve" /\ pc' = "idle" /\ line = SquareLine
                /\ is_natural(heap_at_begin[<< "x" >>]))
            => outcome' = Ok(NaturalNumber(heap_at_begin[<< "x" >>].v
                                              * heap_at_begin[<< "x" >>].v)) ]_vars

\* 'x ^ 2' has resolved to 25 after the resolver of 'x=5', another resolver
\* of the session, had resolved
C13_Witness ==
    /\ returned
    /\ line = SquareLine
    /\ Len(resolvers) = 1
    /\ resolvers[1].tree = Assign(<< "x" >>, Lit(5))
    /\ calls = 2
    /\ local_heap[<< "x" >>] = NaturalNumber(5)
    /\ outcome = Ok(NaturalNumber(25))


\* C14: a resolver resolved twice with no set or setf call in between returns
\* the same result both times, also when the line assigns to a variable its
\* right side reads ('x = x + 1').
C14_ResolveTwice ==
    [][ (pc = "resolve" /\ pc' = "idle" /\ previous # Running)
        => outcome' = previous ]_vars


\* C15: when resolve returns an error, the heap is as it was when resolve was
\* called, also when an assignment was evaluated before the operation that
\* failed ('x=5;1/0', '(x=5)/0').
C15_ErrorLeavesEnvironment ==
    [][ (pc = "resolve" /\ pc' = "idle" /\ outcome'.kind = "Err")
        => local_heap' = heap_at_begin ]_vars


(***************************************************************************)
(* Pow                                                                     *)
(***************************************************************************)
\* C16: at a Pow, a negative exponent with a base of value zero, Integer or
\* Decimal, makes resolve return the division-by-zero error; a negative
\* exponent with another base pushes a Decimal ('2^-2' is 0.25); two Integers
\* with a non-negative exponent push the exact Integer power; a Decimal
\* operand makes the result a Decimal; and resolve does not abort in any of
\* these cases.
C16_PowCases ==
    [][ (at_binary("Pow") /\ is_exact(left_operand) /\ is_exact(right_operand))
        => LET l == value_of(left_operand)
               r == value_of(right_operand)
           IN  /\ outcome' # Panicked
               /\ (r.numer < 0 /\ l.numer = 0) => outcome' = Err(DIVISION_ZERO_ERR)
               /\ (r.numer < 0 /\ l.numer # 0)
                      => (outcome' = Running /\ is_decimal(Last(result_stack')))
               /\ (is_natural(left_operand) /\ is_natural(right_operand) /\ r.numer >= 0)
                      => /\ outcome' = Running
                         /\ Last(result_stack') = NaturalNumber(int_pow(l.numer, r.numer))
               /\ (is_decimal(left_operand) \/ is_decimal(right_operand))
                      => (outcome' = Running => is_decimal(Last(result_stack')))
               /\ line = NegativePowerLine
                      => Last(result_stack') = DecimalNumber(Ratio_new(1, 4)) ]_vars


\* a step that is a call of Session::process
process_called == (pc = "new" /\ pc' = "idle") \/ Len(resolvers') = Len(resolvers) + 1

\* the lowercased names of the Variable tokens of a line
variable_names(text) ==
    { to_lowercase(lexed(text)[i].s) :
          i \in { j \in 1..Len(lexed(text)) : is_variable(lexed(text)[j]) } }

\* C17: Session::process changes the heap only by adding the Integer 0 under
\* the lowercased name of each Variable token of the line that is not a key
\* yet; every entry that is there, a constant or a value that set, setf or
\* an assignment stored, keeps its value.
C17_ProcessRegisters ==
    [][ process_called
        => /\ DOMAIN local_heap' = DOMAIN local_heap \cup variable_names(line')
           /\ \A k \in DOMAIN local_heap : local_heap'[k] = local_heap[k]
           /\ \A k \in variable_names(line') \ DOMAIN local_heap :
                  local_heap'[k] = NaturalNumber(0) ]_vars

\* 'X=y' was processed in a session where the resolver of 'x=5' had stored
\* x = 5: y is registered with 0 and x is still 5
C17_Witness ==
    /\ pc = "idle"
    /\ tree = Assign(<< "X" >>, Var(<< "y" >>))
    /\ Len(resolvers) = 1
    /\ resolvers[1].tree = Assign(<< "x" >>, Lit(5))
    /\ outcome = Ok(NaturalNumber(5))
    /\ local_heap[<< "x" >>] = NaturalNumber(5)
    /\ local_heap[<< "y" >>] = NaturalNumber(0)


\* C18: no set, setf, process or resolve call removes a key from the heap:
\* the keys of a state are keys of the next, and pi, e, tau, phi and gamma
\* are keys in every state.
C18_KeysOnlyGrow ==
    [][ /\ DOMAIN local_heap \subseteq DOMAIN local_heap'
        /\ {str_pi, str_e, str_tau, str_phi, str_gamma} \subseteq DOMAIN local_heap
        /\ {str_pi, str_e, str_tau, str_phi, str_gamma} \subseteq DOMAIN local_heap' ]_vars

\* after a set call and the resolve of 'y=x*2' the heap has the five
\* constants and x and y
C18_Witness ==
    /\ returned
    /\ calls = 2
    /\ tree = Assign(<< "y" >>, Bin("*", Var(<< "x" >>), Lit(2)))
    /\ DOMAIN local_heap =
           {str_pi, str_e, str_tau, str_phi, str_gamma, << "x" >>, << "y" >>}
    /\ local_heap[<< "x" >>] = NaturalNumber(0 - 1)
    /\ local_heap[<< "y" >>] = NaturalNumber(0 - 2)


(***************************************************************************)
(* Functions                                                               *)
(***************************************************************************)
\* resolve is at a Function token
at_function ==
    /\ pc = "resolve"
    /\ pos <= Len(rpn_expr)
    /\ is_function(rpn_expr[pos])

\* C19: a Function token (of the functions resolve has an arm for) that
\* finds its operands takes one value from the stack, max and min two, and
\* pushes one result, which is a Decimal also when the arguments are
\* Integers; 'abs(-3)' is the Decimal 3 and 'max(1,2)' the Decimal 2.
C19_FunctionArity ==
    [][ /\ at_function
            => LET arity == IF rpn_expr[pos].f \in {"Max", "Min"} THEN 2 ELSE 1
               IN  /\ Len(result_stack) >= arity => outcome' = Running
                   /\ outcome' = Running
                         => /\ Len(result_stack) >= arity
                            /\ Len(result_stack') = Len(result_stack) - arity + 1
                            /\ SubSeq(result_stack', 1, Len(result_stack') - 1)
                                  = SubSeq(result_stack, 1, Len(result_stack) - arity)
                            /\ is_decimal(Last(result_stack'))
        /\ (pc = "resolve" /\ pc' = "idle" /\ line = AbsLine)
            => outcome' = Ok(DecimalNumber(BigRational_from(3)))
        /\ (pc = "resolve" /\ pc' = "idle" /\ line = MaxLine)
            => outcome' = Ok(DecimalNumber(BigRational_from(2))) ]_vars

\* 'max(1,2)' has resolved to the Decimal 2: Max took the Integers 1 and 2
C19_Witness ==
    /\ returned
    /\ line = MaxLine
    /\ rpn_expr = << Operand(NaturalNumber(1)), Operand(NaturalNumber(2)), Function("Max") >>
    /\ outcome = Ok(DecimalNumber(BigRational_from(2)))


\* C20: in a call f(a,b) each argument is reduced to one value before the
\* function is applied: the postfix sequence is the sequence of a, the
\* sequence of b and then the function, and max(a,b) and min(a,b) resolve to
\* the greater and the smaller of the values of a and b, also when nested.
C20_ArgumentsReduced ==
    /\ pc # "new" => rpn_expr = postfix_of(tree)
    /\ returned => outcome = Ok(DecimalNumber(BigRational_from(call_value(tree))))


(***************************************************************************)
(* The lexer                                                               *)
(***************************************************************************)
\* how many characters of text are in chars, and how many tokens of v are
\* in tokens
count_chars(text, chars) == Cardinality({ i \in DOMAIN text : text[i] \in chars })
count_tokens(v, tokens) == Cardinality({ i \in DOMAIN v : v[i] \in tokens })

\* C21: the lexer makes a Comma of every ',', a SemiColon of every ';', an
\* Open bracket of every '[' as of every '(' and a Close bracket of every
\* ']' as of every ')': none of them is dropped, and 'x=10;x^2' has a
\* SemiColon between its two statements.
C21_SeparatorsLexed ==
    /\ count_tokens(lexed(line), {Comma}) = count_chars(line, {","})
    /\ count_tokens(lexed(line), {SemiColon}) = count_chars(line, {";"})
    /\ count_tokens(lexed(line), {Bracket("Open")}) = count_chars(line, {"(", "["})
    /\ count_tokens(lexed(line), {Bracket("Close")}) = count_chars(line, {")", "]"})
    /\ line = SquareStatementsLine
           => (Len(lexed(line)) = 7 /\ lexed(line)[4] = SemiColon)

\* ---------------------------------------------------------------------------
\* Unary minus and power
\* ---------------------------------------------------------------------------

literal(text) == lexed(text)[1].n
negated(n) == mul(n, minus_one)

\* C22: unary minus has priority over power: '-a^b' is compiled and evaluated
\* as (-a)^b, a unary minus in the exponent negates the exponent only, so that
\* abs(-5^2) is 25 and both -2^-2 and 2^-2 are 0.25.
C22_UnaryMinusOverPower ==
    /\ \A a \in SignedOperands, b \in SignedOperands :
          LET A == literal(a)
              B == literal(b)
          IN  /\ (line = minus_power(a, b) /\ pc # "new")
                    => rpn_expr = << Operand(A), Operator("Une"), Operand(B), Operator("Pow") >>
              /\ (line = minus_power(a, b) /\ at_operator("Pow"))
                    => result_stack = << negated(A), B >>
              /\ (line = power_minus(a, b) /\ pc # "new")
                    => rpn_expr = << Operand(A), Operand(B), Operator("Une"), Operator("Pow") >>
              /\ (line = power_minus(a, b) /\ at_operator("Pow"))
                    => result_stack = << A, negated(B) >>
              /\ (line = minus_power_minus(a, b) /\ pc # "new")
                    => rpn_expr = << Operand(A), Operator("Une"), Operand(B), Operator("Une"),
                                     Operator("Pow") >>
              /\ (line = minus_power_minus(a, b) /\ at_operator("Pow"))
                    => result_stack = << negated(A), negated(B) >>
    /\ (line = AbsSquareLine /\ returned)
          => outcome = Ok(DecimalNumber(Ratio_new(25, 1)))
    /\ (line \in {MinusPowerMinusLine, NegativePowerLine} /\ returned)
          => outcome = Ok(DecimalNumber(Ratio_new(1, 4)))

C22_Witness ==
    /\ line = MinusPowerMinusLine
    /\ at_operator("Pow")
    /\ result_stack = << NaturalNumber(-2), NaturalNumber(-2) >>

\* ---------------------------------------------------------------------------
\* Case of variable names
\* ---------------------------------------------------------------------------

lowercase_only(str) == \A i \in DOMAIN str : str[i] \notin Range(UpperCase)

\* C23: set and setf store an Integer or a Decimal under the lowercased key and
\* overwrite what was there; registration, lookup and assignment lowercase the
\* name too, so 'x' and 'X' both read the entry "x", and every key of the
\* Environment is lowercase in every reachable state.
C23_CaseInsensitiveNames ==
    [][ /\ \A k \in DOMAIN local_heap \cup DOMAIN local_heap' : lowercase_only(k)
        /\ set_called
            => \E n \in set_numbers :
                   /\ DOMAIN local_heap' = DOMAIN local_heap \cup { << "x" >> }
                   /\ local_heap'[<< "x" >>] = n
                   /\ \A k \in DOMAIN local_heap \ { << "x" >> } : local_heap'[k] = local_heap[k]
        /\ (pc = "new" /\ pc' = "idle" /\ line \in { << "x" >>, << "X" >> })
            => /\ DOMAIN local_heap' = DOMAIN local_heap \cup { << "x" >> }
               /\ << "x" >> \in DOMAIN local_heap => local_heap' = local_heap
        /\ (pc = "resolve" /\ pc' = "idle" /\ line \in { << "x" >>, << "X" >> })
            => outcome' = Ok(heap_at_begin[<< "x" >>])
        /\ (pc = "resolve" /\ pc' = "idle" /\ line \in { << "x", "=", "1" >>, << "X", "=", "1" >> })
            => /\ outcome' = Ok(NaturalNumber(1))
               /\ local_heap'[<< "x" >>] = NaturalNumber(1) ]_vars

C23_Witness ==
    /\ line = << "X" >>
    /\ returned
    /\ calls > 0
    /\ outcome = Ok(NaturalNumber(MaxSetValue))

\* ---------------------------------------------------------------------------
\* reverse_polish_notation on arbitrary token sequences
\* ---------------------------------------------------------------------------

compiled == pc \notin { "new", "tokens" }
kept(tokens) == count_tokens(tokens, { t \in Range(tokens) : ~is_close(t) /\ t # Comma })

\* C24: reverse_polish_notation is total: on every token sequence, unbalanced
\* brackets, stray commas or semicolons and functions without arguments
\* included, no expect is reached with an empty operator stack and
\* operator_priority never sees a non-operator; the output holds no Close
\* bracket and no Comma and at most the other tokens of the input.
C24_ShuntingYardTotal ==
    compiled
        => /\ pc # "aborted"
           /\ count_tokens(rpn_expr, { Bracket("Close"), Comma }) = 0
           /\ Len(rpn_expr) <= kept(infix_stack)

C24_Witness ==
    /\ pc = "idle"
    /\ calls = 0
    /\ infix_stack = << Bracket("Close"), Comma, Function("Max") >>
    /\ rpn_expr = << Function("Max") >>

\* ---------------------------------------------------------------------------
\* Too few values on the operand stack
\* ---------------------------------------------------------------------------

\* the values the token at pos takes from result_stack
needed(t) ==
    CASE is_operator(t) -> IF t.op \in {"Une", "Fac"} THEN 1 ELSE 2
      [] is_function(t) -> IF t.f \in {"Max", "Min"} THEN 2 ELSE 1
      [] OTHER -> 0

\* C25: an operator or a function that finds fewer values on result_stack than
\* it takes makes resolve return the malformed-expression error and not abort,
\* as does a Bracket or a Comma in the postfix sequence; 'min()' and 'max()'
\* resolve to that error.
C25_UnderflowIsError ==
    [][ /\ (pc = "resolve" /\ pos <= Len(rpn_expr))
            => LET t == rpn_expr[pos]
               IN  (Len(result_stack) < needed(t) \/ t.k = "Bracket" \/ t = Comma)
                      => /\ outcome' = Err(MALFORMED_ERR)
                         /\ pc' = "idle"
                         /\ local_heap' = local_heap
        /\ (pc = "resolve" /\ pc' = "idle" /\ infix_stack \in {MaxEmptyTokens, MinEmptyTokens})
            => outcome' = Err(MALFORMED_ERR)
        /\ Parser_parse(MaxEmptyLine) = MaxEmptyTokens
        /\ Parser_parse(MinEmptyLine) = MinEmptyTokens ]_vars

C25_Witness ==
    /\ infix_stack = MaxEmptyTokens
    /\ rpn_expr = << Function("Max") >>
    /\ returned
    /\ outcome = Err(MALFORMED_ERR)

\* ---------------------------------------------------------------------------
\* Factorial of a non-negative Integer
\* ---------------------------------------------------------------------------

\* n! as the product 1 * 2 * ... * n
RECURSIVE product_to(_)
product_to(n) == IF n = 0 THEN 1 ELSE product_to(n - 1) * n

tag_of(t) == IF is_variable(t) THEN << to_lowercase(t.s) >> ELSE << >>

\* C27: while resolve runs, var_stack is as long as result_stack, and its
\* entry at a position is Some(name) exactly when the value at that position
\* was pushed by a Variable token of that lowercased name and is still on the
\* stack; values pushed by operands, operators and functions are tagged None.
C27_VarStackAligned ==
    pc = "resolve"
        => /\ Len(var_stack) = Len(result_stack)
           /\ LET st == producers(rpn_expr, pos - 1)
              IN  /\ Len(st) = Len(var_stack)
                  /\ \A i \in DOMAIN var_stack : var_stack[i] = tag_of(rpn_expr[st[i]])

\* x and the result of -x are on the stack
C27_Witness ==
    /\ pc = "resolve"
    /\ infix_stack = << Variable(<< "x" >>), Variable(<< "x" >>), Operator("Une") >>
    /\ pos = 4
    /\ var_stack = << Some(<< "x" >>), NoneVar >>

\* ---------------------------------------------------------------------------
\* Writes to the Environment during resolve
\* ---------------------------------------------------------------------------

has_assign(e) == \E i \in DOMAIN e : e[i] = Operator("Eql")

\* C28: only the Assign arm of resolve writes to the Environment: a step of
\* resolve at any other token leaves it as it is, and a resolve of a postfix
\* sequence without Assign returns, a value or an error, with the
\* Environment it began with.
C28_OnlyAssignWrites ==
    [][ /\ (pc = "resolve" /\ ~at_operator("Eql")) => local_heap' = local_heap
        /\ (pc = "resolve" /\ pc' = "idle" /\ ~has_assign(rpn_expr))
              => local_heap' = heap_at_begin ]_vars

C28_Witness ==
    /\ infix_stack = << Variable(<< "x" >>), Operator("Add"), Operand(NaturalNumber(1)) >>
    /\ returned
    /\ outcome = Ok(NaturalNumber(1))
    /\ local_heap = heap_at_begin
    /\ local_heap[<< "x" >>] = NaturalNumber(0)

\* ---------------------------------------------------------------------------
\* A sign after a separator
\* ---------------------------------------------------------------------------

separated(sep, sign) ==
    << Operand(NaturalNumber(1)), sep, Operator(sign), Operand(NaturalNumber(2)) >>

\* C29: a '-' right after a Comma or a SemiColon is in unary position:
\* mod_unary_operators makes it UnaryNeg and drops a '+' there, so that
\* max(1,-2) is 1 and 'x=1;-x' is -1.
C29_SignAfterSeparator ==
    /\ \A sep \in { Comma, SemiColon } :
          /\ mod_unary_operators(separated(sep, "Sub"))
                = << Operand(NaturalNumber(1)), sep, Operator("Une"), Operand(NaturalNumber(2)) >>
          /\ mod_unary_operators(separated(sep, "Add"))
                = << Operand(NaturalNumber(1)), sep, Operand(NaturalNumber(2)) >>
    /\ (line = MaxSignedLine /\ returned)
          => outcome = Ok(DecimalNumber(Ratio_new(1, 1)))
    /\ (line = NegatedStatementLine /\ returned)
          => outcome = Ok(NaturalNumber(0 - 1))

\* ---------------------------------------------------------------------------
\* Variables that were never assigned
\* ---------------------------------------------------------------------------

at_variable ==
    /\ pc = "resolve"
    /\ pos <= Len(rpn_expr)
    /\ is_variable(rpn_expr[pos])

\* C30: every Variable of a compiled expression has an entry in the
\* Environment whenever the expression is resolved, so the lookup never falls
\* back to Decimal 0: it pushes the entry, which is the registered Integer 0
\* for a variable that was never assigned or set, and 'x+1' is Integer 1.
C30_RegisteredVariables ==
    [][ /\ pc # "new" => variable_names(line) \subseteq DOMAIN local_heap
        /\ at_variable
            => LET name == to_lowercase(rpn_expr[pos].s)
               IN  /\ name \in DOMAIN local_heap
                   /\ outcome' = Running
                   /\ Last(result_stack') = local_heap[name]
                   /\ (calls = 1 /\ name = << "x" >>) => Last(result_stack') = NaturalNumber(0)
        /\ (pc = "resolve" /\ pc' = "idle" /\ line = XPlusOneLine /\ calls = 1)
            => outcome' = Ok(NaturalNumber(1)) ]_vars

C30_Witness ==
    /\ line = XPlusOneLine
    /\ returned
    /\ calls = 1
    /\ outcome = Ok(NaturalNumber(1))

=============================================================================
